---- MODULE Spec2Model ----
(***************************************************************************)
(* A model of the ai-pipeline-orchestrator request-processing core:        *)
(*   - executeOrchestration (src/src/core/types.ts), the step executor;    *)
(*   - TTLCache.getOrLoad (src/src/context/cache.ts);                      *)
(*   - createIntentHandler (src/unnamed/part_007) over detectIntent        *)
(*     (src/src/intent/classifier.ts);                                     *)
(*   - ContextOptimizer.build (src/unnamed/part_009);                      *)
(*   - createDynamicContextHandler (src/unnamed/part_008);                 *)
(*   - createRateLimitHandler (src/unnamed/part_007);                      *)
(*   - createModerationHandler (src/unnamed/part_006).                     *)
(* Each subsystem has its own specification over the shared variables; the *)
(* variables of the other subsystems stay parked at their initial value.   *)
(***************************************************************************)
EXTENDS Integers, Sequences, FiniteSets, TLC

VARIABLES
    \* ---- step executor ----
    steps,            \* the plan: sequence of entries [par, stages]
    config,           \* OrchestratorConfig: includeErrorDetails, callbacks
    pc,               \* "ready" | "await" | "done": position of executeOrchestration
    idx,              \* index of the plan-entry being awaited
    currentContext,   \* the rolling context of the for loop
    status,           \* per stage: promise state of its executeSingleStep call
    stepInput,        \* per stage: the ctx argument of its executeSingleStep call
    predValue,        \* per stage: what its shouldExecute call settled to
    stepResult,       \* per stage: the context its executeSingleStep resolved to
    fault,            \* per stage: the error text its executeSingleStep rejected with
    invoked,          \* per stage: how often step.handler was called
    predCalls,        \* per stage: how often step.shouldExecute was called
    rejectedFirst,    \* first stage of the awaited entry whose promise rejected (0: none)
    result,           \* the OrchestrationResult once returned
    onErrorLog,       \* the error views passed to config.onError, in order
    stepCompleteLog,  \* per stage: how often config.onStepComplete got its name
    callbackThrew,    \* some onStepComplete / onError call has thrown
    cancelFired,      \* the caller's cancellation token has fired
    \* ---- TTL cache ----
    now,              \* Date.now()
    cache,            \* TTLCache.cache: key -> entry
    pendingLoads,     \* TTLCache.pendingLoads: key -> load id (0: none)
    loads,            \* the loader promises created so far
    callers,          \* the getOrLoad calls: their position and outcome
    \* ---- intent handler ----
    ipc,              \* position of the intent handler call
    icfg,             \* IntentHandlerConfig and the request's last message
    kwResult,         \* the keyword tier's result computed by the call
    llmCalls,         \* how often llmFallback.classifier.classify was called
    fallbackLog,      \* how often config.onFallback was called
    intentOut,        \* the value written under contextKey
    llmResult,        \* what llmFallback.classifier.classify resolved to
    intentReturn,     \* how the handler call ended, and the error of its context
    \* ---- context optimizer ----
    optIn,            \* ContextConfig and the arguments of build()
    optOut,           \* the ContextResult build() returned
    \* ---- dynamic context handler ----
    dcfg,             \* DynamicContextHandlerConfig: which options are given
    dyn,              \* the handler calls: position, request, output, error
    loadArgs,         \* per loader promise: the options loader.load was given
    \* ---- rate-limit handler ----
    rcfg,             \* RateLimitHandlerConfig, the request's metadata, the callbacks
    rl,               \* the handler call inside a two-step plan: position and outcome
    \* ---- moderation handler ----
    mcfg,             \* ModerationConfig and the request's last message
    mod,              \* the handler call: position and the context it returned
    \* ---- condition combinators ----
    cnd,              \* the conditions under evaluation, the state and the outcomes
    \* ---- a ContextOptimizer instance ----
    inst,             \* its config and the build() calls made on it, with results
    \* ---- textual LLM classifier ----
    prs,              \* the response text and what parseResponse made of it
    \* ---- isAuthenticated ----
    auth,             \* the request's metadata, the predicate's value, the gated step
    \* ---- an Orchestrator instance ----
    orc               \* the step objects, the arrays, this.steps and the executions

execVars == <<steps, config, pc, idx, currentContext, status, stepInput, predValue,
              stepResult, fault, invoked, predCalls, rejectedFirst, result,
              onErrorLog, stepCompleteLog, callbackThrew, cancelFired>>
cacheVars == <<now, cache, pendingLoads, loads, callers>>
intentVars == <<ipc, icfg, kwResult, llmCalls, fallbackLog, intentOut, llmResult,
                intentReturn>>
optVars == <<optIn, optOut>>
dynVars == <<dcfg, dyn, loadArgs>>
rateVars == <<rcfg, rl>>
modVars == <<mcfg, mod>>
condVars == <<cnd>>
instVars == <<inst>>
parseVars == <<prs>>
authVars == <<auth>>
planVars == <<orc>>
moreVars == <<condVars, instVars, parseVars, authVars, planVars>>
gateVars == <<rateVars, modVars, moreVars>>
stageVars == <<optVars, dynVars, gateVars>>
vars == <<execVars, cacheVars, intentVars, stageVars>>

(***************************************************************************)
(* Bounds of the model.                                                    *)
(***************************************************************************)
MaxStages == 3
\* The number of getOrLoad calls made on the cache.
MaxCallers == 3
\* The last instant of the clock.
MaxTime == 3
\* ttlMs, the constructor argument of TTLCache.
Ttl == 2
\* The longest message handed to the intent stage, in characters.
MaxMsgLen == 3
\* The largest section catalog.
MaxSections == 3

(***************************************************************************)
(* Contexts and failure descriptors.                                       *)
(***************************************************************************)
\* An optional property that is not set (undefined).
Undefined == "undefined"

Keys == {"k1", "k2"}

StageIds == 1..MaxStages

Name(id) == "S" \o ToString(id)

NoError == [message |-> Undefined, statusCode |-> 0, step |-> Undefined,
            details |-> Undefined]

\* The context the caller passes in: one extension already present.
InputContext ==
    [request |-> "req", error |-> NoError,
     ext |-> [k \in Keys |-> IF k = "k1" THEN "in" ELSE Undefined]]

NoContext == [request |-> Undefined, error |-> NoError,
              ext |-> [k \in Keys |-> Undefined]]

NoResult == [success |-> FALSE, context |-> NoContext, error |-> NoError,
             returned |-> FALSE]

(***************************************************************************)
(* Plans: OrchestrationSteps = Array<OrchestrationStep | OrchestrationStep[]>*)
(* Stage ids are positions in declaration order; names are unique.         *)
(***************************************************************************)
StageChoices(id) ==
    {[id |-> id, enabled |-> e, hasPred |-> p] : e \in BOOLEAN, p \in BOOLEAN}

RECURSIVE StageSeqs(_, _)
StageSeqs(i, j) ==
    IF i > j THEN {<<>>}
    ELSE {<<s>> \o r : s \in StageChoices(i), r \in StageSeqs(i + 1, j)}

\* A plan-entry over stages i..i+len-1: a single step, or an array of steps.
EntriesAt(i, len) ==
    {[par |-> p, stages |-> q] :
        p \in (IF len = 1 THEN BOOLEAN ELSE {TRUE}),
        q \in StageSeqs(i, i + len - 1)}

RECURSIVE PlansFrom(_, _)
PlansFrom(i, n) ==
    IF i > n THEN {<<>>}
    ELSE UNION {{<<e>> \o r : e \in EntriesAt(i, len), r \in PlansFrom(i + len, n)} :
                    len \in 1..(n - i + 1)}

Plans == UNION {PlansFrom(1, n) : n \in 1..MaxStages}

IdsOf(entry) == {entry.stages[i].id : i \in 1..Len(entry.stages)}

PlanIds == UNION {IdsOf(steps[i]) : i \in 1..Len(steps)}

EntryOf(id) == CHOOSE i \in 1..Len(steps) : id \in IdsOf(steps[i])

StageRec(id) ==
    LET e == steps[EntryOf(id)]
    IN e.stages[CHOOSE i \in 1..Len(e.stages) : e.stages[i].id = id]

\* stepOrGroup.map(s => s.name).join(', ')
RECURSIVE JoinNames(_)
JoinNames(stages) ==
    IF Len(stages) = 0 THEN ""
    ELSE IF Len(stages) = 1 THEN Name(stages[1].id)
    ELSE Name(stages[1].id) \o ", " \o JoinNames(Tail(stages))

StepNameOf(entry) ==
    IF entry.par THEN JoinNames(entry.stages) ELSE Name(entry.stages[1].id)

(***************************************************************************)
(* What a handler, a predicate or a callback may do: the executor's inputs.*)
(***************************************************************************)
\* A handler returns a new context (copy-on-write) or throws.
Outcomes ==
    {"writeK1", "writeK2", "newRequest", "fail", "failWithStep", "failWithDetails",
     "throw"}

HandlerFault(id) == "fault of " \o Name(id)
PredicateFault(id) == "predicate fault of " \o Name(id)
CallbackFault == "callback fault"

HandlerError(o) ==
    [message |-> "handler message", statusCode |-> 400,
     step |-> IF o = "failWithStep" THEN "custom" ELSE Undefined,
     details |-> IF o = "failWithDetails" THEN "handler details" ELSE Undefined]

\* { ...ctx, key: value } and { ...ctx, key: value, error: {...} }
HandlerResult(ctx, id, o) ==
    CASE o = "writeK1" -> [ctx EXCEPT !.ext["k1"] = Name(id)]
      [] o = "writeK2" -> [ctx EXCEPT !.ext["k2"] = Name(id)]
      [] o = "newRequest" -> [ctx EXCEPT !.request = "req of " \o Name(id)]
      [] OTHER -> [ctx EXCEPT !.ext["k2"] = Name(id), !.error = HandlerError(o)]

(***************************************************************************)
(* executeOrchestration                                                    *)
(***************************************************************************)
GenericMessage == "An error occurred while processing your request. Please try again."
UnexpectedMessage == "An unexpected error occurred. Please try again."

\* Mutant: a result's failure descriptor is not looked at.
HasErrorIgnored(ctx) == FALSE

\* if (result.error)
HasError(ctx) == ctx.error # NoError

\* Mutant: the enabled flag is not looked at.
IsDisabledIgnored(step) == FALSE

\* if (step.enabled === false) return ctx
IsDisabled(step) == step.enabled = FALSE

\* The state of executeSingleStep(step, ctx) at its first suspension.
SyncStatus(step) ==
    IF IsDisabled(step) THEN "fulfilled"
    ELSE IF step.hasPred THEN "pred"
    ELSE "running"

\* Mutant: { ...result, ...acc }, the earlier value wins.
SpreadEarlierWins(acc, r) ==
    [request |-> IF acc.request # Undefined THEN acc.request ELSE r.request,
     error |-> IF acc.error # NoError THEN acc.error ELSE r.error,
     ext |-> [k \in Keys |-> IF acc.ext[k] # Undefined THEN acc.ext[k] ELSE r.ext[k]]]

\* { ...acc, ...result }: every property the result carries overwrites acc's.
Spread(acc, r) ==
    [request |-> IF r.request # Undefined THEN r.request ELSE acc.request,
     error |-> IF r.error # NoError THEN r.error ELSE acc.error,
     ext |-> [k \in Keys |-> IF r.ext[k] # Undefined THEN r.ext[k] ELSE acc.ext[k]]]

\* results.reduce((acc, result) => ({ ...acc, ...result }), currentContext)
RECURSIVE MergeResults(_, _)
MergeResults(results, acc) ==
    IF Len(results) = 0 THEN acc
    ELSE MergeResults(Tail(results), Spread(acc, Head(results)))

ResultsOf(entry) == [i \in 1..Len(entry.stages) |-> stepResult[entry.stages[i].id]]

\* const failedStep = result.error.step || stepOrGroup[i].name
FailedStep(err, name) == IF err.step # Undefined THEN err.step ELSE name

\* The failure the catch block of the loop body builds.
ThrownError(stepName, errorMessage) ==
    [message |-> GenericMessage, statusCode |-> 500, step |-> stepName,
     details |-> IF config.includeErrorDetails THEN errorMessage ELSE Undefined]

\* The failure the outer catch block builds.
UnexpectedError(errorMessage) ==
    [message |-> UnexpectedMessage, statusCode |-> 500, step |-> "orchestration",
     details |-> IF config.includeErrorDetails THEN errorMessage ELSE Undefined]

ErrorView(step, err) ==
    [step |-> step, message |-> err.message, statusCode |-> err.statusCode,
     details |-> err.details]

Return(success, ctx, err) ==
    /\ pc' = "done"
    /\ currentContext' = ctx
    /\ result' = [success |-> success, context |-> ctx, error |-> err,
                  returned |-> TRUE]
    /\ UNCHANGED <<idx, status, stepInput, stepResult, invoked, predCalls,
                   rejectedFirst>>

\* The synchronous start of plan-entry i: every stage of the entry runs
\* executeSingleStep up to its first await, in declaration order.
BeginEntry(i, ctx) ==
    LET entry == steps[i]
        ids == IdsOf(entry)
    IN  /\ pc' = "await"
        /\ idx' = i
        /\ currentContext' = ctx
        /\ rejectedFirst' = 0
        /\ status' = [s \in StageIds |->
                        IF s \in ids THEN SyncStatus(StageRec(s)) ELSE status[s]]
        /\ stepInput' = [s \in StageIds |-> IF s \in ids THEN ctx ELSE stepInput[s]]
        /\ stepResult' = [s \in StageIds |->
                        IF s \in ids /\ SyncStatus(StageRec(s)) = "fulfilled"
                        THEN ctx ELSE stepResult[s]]
        /\ invoked' = [s \in StageIds |->
                        IF s \in ids /\ SyncStatus(StageRec(s)) = "running"
                        THEN invoked[s] + 1 ELSE invoked[s]]
        /\ predCalls' = [s \in StageIds |->
                        IF s \in ids /\ SyncStatus(StageRec(s)) = "pred"
                        THEN predCalls[s] + 1 ELSE predCalls[s]]
        /\ UNCHANGED result

\* The for loop from plan-entry i on, up to its next await or its return.
Advance(i, ctx) ==
    IF i > Len(steps)
    THEN Return(TRUE, ctx, NoError)
    ELSE BeginEntry(i, ctx)

\* catch (error) of the loop body, lines 209-236; onError may itself throw,
\* which the outer catch (lines 258-280) turns into the 'orchestration' failure.
Catch(stepName, errorMessage, log) ==
    LET err == ThrownError(stepName, errorMessage)
        ctx == [currentContext EXCEPT !.error = err]
    IN  \E cbThrows \in BOOLEAN :
          /\ onErrorLog' = Append(log, ErrorView(stepName, err))
          /\ IF cbThrows
             THEN LET err2 == UnexpectedError(CallbackFault)
                  IN  /\ Return(FALSE, [ctx EXCEPT !.error = err2], err2)
                      /\ callbackThrew' = TRUE
             ELSE /\ Return(FALSE, ctx, err)
                  /\ callbackThrew' = (callbackThrew \/ Len(log) > Len(onErrorLog))

\* Lines 181-207: the result of a single step.
ResumeSingle(entry) ==
    LET r == stepResult[entry.stages[1].id]
        name == Name(entry.stages[1].id)
    IN  IF HasError(r)
        THEN \E cbThrows \in BOOLEAN :
               IF cbThrows
               THEN Catch(name, CallbackFault,
                          Append(onErrorLog, ErrorView(name, r.error)))
               ELSE /\ onErrorLog' = Append(onErrorLog, ErrorView(name, r.error))
                    /\ Return(FALSE, r, r.error)
                    /\ UNCHANGED callbackThrew
        ELSE /\ Advance(idx + 1, r)
             /\ UNCHANGED <<onErrorLog, callbackThrew>>

\* Lines 146-176: the results of a parallel group, scanned in declaration order.
ResumeGroup(entry) ==
    LET results == ResultsOf(entry)
        failing == {i \in 1..Len(results) : HasError(results[i])}
    IN  IF failing # {}
        THEN LET i == CHOOSE j \in failing : \A m \in failing : j <= m
                 failedStep == FailedStep(results[i].error, Name(entry.stages[i].id))
                 errorWithStep == [results[i].error EXCEPT !.step = failedStep]
                 view == ErrorView(failedStep, errorWithStep)
             IN  \E cbThrows \in BOOLEAN :
                   IF cbThrows
                   THEN Catch(StepNameOf(entry), CallbackFault,
                              Append(onErrorLog, view))
                   ELSE /\ onErrorLog' = Append(onErrorLog, view)
                        /\ Return(FALSE, [results[i] EXCEPT !.error = errorWithStep],
                                  errorWithStep)
                        /\ UNCHANGED callbackThrew
        ELSE /\ Advance(idx + 1, MergeResults(results, currentContext))
             /\ UNCHANGED <<onErrorLog, callbackThrew>>

ExecInit ==
    /\ steps \in Plans
    /\ config \in [includeErrorDetails : BOOLEAN]
    /\ pc = "ready"
    /\ idx = 0
    /\ currentContext = NoContext
    /\ status = [s \in StageIds |-> "idle"]
    /\ stepInput = [s \in StageIds |-> NoContext]
    /\ predValue = [s \in StageIds |-> "none"]
    /\ stepResult = [s \in StageIds |-> NoContext]
    /\ fault = [s \in StageIds |-> Undefined]
    /\ invoked = [s \in StageIds |-> 0]
    /\ predCalls = [s \in StageIds |-> 0]
    /\ rejectedFirst = 0
    /\ result = NoResult
    /\ onErrorLog = <<>>
    /\ stepCompleteLog = [s \in StageIds |-> 0]
    /\ callbackThrew = FALSE
    /\ cancelFired = FALSE

\* executeOrchestration(context, steps, config) up to its first await.
Execute ==
    /\ pc = "ready"
    /\ Advance(1, InputContext)
    /\ UNCHANGED <<steps, config, predValue, fault, onErrorLog, stepCompleteLog,
                   callbackThrew, cancelFired>>
    /\ UNCHANGED <<cacheVars, intentVars, stageVars>>

\* The awaited promise of the current plan-entry settles and the loop goes on.
Resume ==
    /\ pc = "await"
    /\ LET entry == steps[idx]
       IN  \/ /\ rejectedFirst # 0
              /\ Catch(StepNameOf(entry), fault[rejectedFirst], onErrorLog)
           \/ /\ rejectedFirst = 0
              /\ \A s \in IdsOf(entry) : status[s] = "fulfilled"
              /\ IF entry.par THEN ResumeGroup(entry) ELSE ResumeSingle(entry)
    /\ UNCHANGED <<steps, config, predValue, fault, stepCompleteLog, cancelFired>>
    /\ UNCHANGED <<cacheVars, intentVars, stageVars>>

\* Mutant: a rejection is never noticed by the awaiting loop.
RejectUnnoticed(s) == rejectedFirst

\* A promise of the awaited entry rejects: Promise.all / await take the first.
Reject(s) ==
    IF rejectedFirst = 0 /\ pc = "await" /\ s \in IdsOf(steps[idx])
    THEN s ELSE rejectedFirst

\* await step.shouldExecute(ctx) settles (lines 106-112), then the handler starts.
PredResolve(s) ==
    /\ status[s] = "pred"
    /\ \E v \in {"true", "false", "throws"} :
       /\ predValue' = [predValue EXCEPT ![s] = v]
       /\ CASE v = "true" ->
                /\ status' = [status EXCEPT ![s] = "running"]
                /\ invoked' = [invoked EXCEPT ![s] = @ + 1]
                /\ UNCHANGED <<stepResult, fault, rejectedFirst>>
           [] v = "false" ->
                /\ status' = [status EXCEPT ![s] = "fulfilled"]
                /\ stepResult' = [stepResult EXCEPT ![s] = stepInput[s]]
                /\ UNCHANGED <<invoked, fault, rejectedFirst>>
           [] OTHER ->
                /\ status' = [status EXCEPT ![s] = "rejected"]
                /\ fault' = [fault EXCEPT ![s] = PredicateFault(s)]
                /\ rejectedFirst' = Reject(s)
                /\ UNCHANGED <<stepResult, invoked>>
    /\ UNCHANGED <<steps, config, pc, idx, currentContext, stepInput, predCalls,
                   result, onErrorLog, stepCompleteLog, callbackThrew, cancelFired>>
    /\ UNCHANGED <<cacheVars, intentVars, stageVars>>

\* await step.handler(ctx) fulfils; onStepComplete is called (lines 115-121).
HandlerReturn(s) ==
    /\ status[s] = "running"
    /\ \E o \in Outcomes \ {"throw"}, cbThrows \in BOOLEAN :
         /\ stepCompleteLog' = [stepCompleteLog EXCEPT ![s] = @ + 1]
         /\ callbackThrew' = (callbackThrew \/ cbThrows)
         /\ IF cbThrows
            THEN /\ status' = [status EXCEPT ![s] = "rejected"]
                 /\ fault' = [fault EXCEPT ![s] = CallbackFault]
                 /\ rejectedFirst' = Reject(s)
                 /\ UNCHANGED stepResult
            ELSE /\ status' = [status EXCEPT ![s] = "fulfilled"]
                 /\ stepResult' = [stepResult EXCEPT ![s] =
                                      HandlerResult(stepInput[s], s, o)]
                 /\ UNCHANGED <<fault, rejectedFirst>>
    /\ UNCHANGED <<steps, config, pc, idx, currentContext, stepInput, predValue,
                   invoked, predCalls, result, onErrorLog, cancelFired>>
    /\ UNCHANGED <<cacheVars, intentVars, stageVars>>

\* await step.handler(ctx) rejects.
HandlerThrow(s) ==
    /\ status[s] = "running"
    /\ status' = [status EXCEPT ![s] = "rejected"]
    /\ fault' = [fault EXCEPT ![s] = HandlerFault(s)]
    /\ rejectedFirst' = Reject(s)
    /\ UNCHANGED <<steps, config, pc, idx, currentContext, stepInput, predValue,
                   stepResult, invoked, predCalls, result, onErrorLog,
                   stepCompleteLog, callbackThrew, cancelFired>>
    /\ UNCHANGED <<cacheVars, intentVars, stageVars>>

\* The caller fires its cancellation token while the execution is suspended.
\* OrchestratorConfig has no field for a token: nothing of the executor reads it.
Cancel ==
    /\ pc = "await"
    /\ cancelFired = FALSE
    /\ cancelFired' = TRUE
    /\ UNCHANGED <<steps, config, pc, idx, currentContext, status, stepInput,
                   predValue, stepResult, fault, invoked, predCalls, rejectedFirst,
                   result, onErrorLog, stepCompleteLog, callbackThrew>>
    /\ UNCHANGED <<cacheVars, intentVars, stageVars>>

Next ==
    \/ Execute
    \/ Resume
    \/ \E s \in StageIds : PredResolve(s)
    \/ \E s \in StageIds : HandlerReturn(s)
    \/ \E s \in StageIds : HandlerThrow(s)

\* The same executor with a caller that may fire its cancellation token.
NextCancel == Next \/ Cancel

\* The executor's variables while another subsystem is looked at.
ExecParked ==
    /\ steps = <<>>
    /\ config = [includeErrorDetails |-> FALSE]
    /\ pc = "parked"
    /\ idx = 0
    /\ currentContext = NoContext
    /\ status = <<>>
    /\ stepInput = <<>>
    /\ predValue = <<>>
    /\ stepResult = <<>>
    /\ fault = <<>>
    /\ invoked = <<>>
    /\ predCalls = <<>>
    /\ rejectedFirst = 0
    /\ result = NoResult
    /\ onErrorLog = <<>>
    /\ stepCompleteLog = <<>>
    /\ callbackThrew = FALSE
    /\ cancelFired = FALSE

(***************************************************************************)
(* TTLCache (src/src/context/cache.ts)                                     *)
(***************************************************************************)
CacheKeys == {"default", "v1"}

CallerIds == 1..MaxCallers

NoEntry == [present |-> FALSE, value |-> 0, expiresAt |-> 0]

\* stale: the load that serves the call had been invalidated when the call began.
IdleCaller == [pc |-> "idle", key |-> Undefined, load |-> 0, value |-> 0, stale |-> FALSE]

\* Mutant: an entry is served up to and including its expiry instant.
IsFreshInclusive(entry, t) == entry.present /\ entry.expiresAt >= t

\* if (cached && cached.expiresAt > Date.now())
IsFresh(entry, t) == entry.present /\ entry.expiresAt > t

\* Mutant: the in-flight load of the key is not looked up.
PendingForNone(k) == 0

\* const pending = this.pendingLoads.get(key)
PendingFor(k) == pendingLoads[k]

\* expiresAt: Date.now() + this.ttlMs, evaluated when the load has resolved
ExpiryOf(t) == t + Ttl

CacheInit ==
    /\ now = 0
    /\ cache = [k \in CacheKeys |-> NoEntry]
    /\ pendingLoads = [k \in CacheKeys |-> 0]
    /\ loads = <<>>
    /\ callers = [c \in CallerIds |-> IdleCaller]

\* getOrLoad(key, loader) up to its first await or its return (lines 11-26).
\* Each loader invocation yields its own value: the number of the invocation.
getOrLoad(c, k) ==
    /\ callers[c].pc = "idle"
    /\ IF IsFresh(cache[k], now)
       THEN /\ callers' = [callers EXCEPT ![c] =
                   [pc |-> "returned", key |-> k, load |-> 0, value |-> cache[k].value,
                    stale |-> loads[cache[k].value].dropped # "no"]]
            /\ UNCHANGED <<loads, pendingLoads>>
       ELSE IF PendingFor(k) # 0
       THEN /\ callers' = [callers EXCEPT ![c] =
                   [pc |-> "joined", key |-> k, load |-> PendingFor(k), value |-> 0,
                    stale |-> loads[PendingFor(k)].dropped # "no"]]
            /\ UNCHANGED <<loads, pendingLoads>>
       ELSE LET l == Len(loads) + 1
            IN  /\ loads' = Append(loads, [key |-> k, state |-> "pending", dropped |-> "no"])
                /\ pendingLoads' = [pendingLoads EXCEPT ![k] = l]
                /\ callers' = [callers EXCEPT ![c] =
                       [pc |-> "owner", key |-> k, load |-> l, value |-> 0, stale |-> FALSE]]
    /\ UNCHANGED <<now, cache>>

\* A getOrLoad call made on the cache directly.
GetOrLoad(c, k) ==
    /\ getOrLoad(c, k)
    /\ UNCHANGED <<execVars, intentVars, stageVars>>

\* The promise returned by loader() settles.
LoaderSettle(l) ==
    /\ l \in 1..Len(loads)
    /\ loads[l].state = "pending"
    /\ \E st \in {"fulfilled", "rejected"} :
          loads' = [loads EXCEPT ![l].state = st]
    /\ UNCHANGED <<now, cache, pendingLoads, callers>>
    /\ UNCHANGED <<execVars, intentVars, stageVars>>

\* The call that started the load resumes after await loadPromise (lines 26-36).
ownerResume(c) ==
    /\ callers[c].pc = "owner"
    /\ LET l == callers[c].load
           k == callers[c].key
       IN  /\ loads[l].state # "pending"
           /\ pendingLoads' = [pendingLoads EXCEPT ![k] = 0]
           /\ IF loads[l].state = "fulfilled"
              THEN /\ cache' = [cache EXCEPT ![k] =
                          [present |-> TRUE, value |-> l, expiresAt |-> ExpiryOf(now)]]
                   /\ callers' = [callers EXCEPT ![c].pc = "returned", ![c].value = l]
              ELSE /\ callers' = [callers EXCEPT ![c].pc = "threw"]
                   /\ UNCHANGED cache
    /\ UNCHANGED <<now, loads>>

OwnerResume(c) ==
    /\ ownerResume(c)
    /\ UNCHANGED <<execVars, intentVars, stageVars>>

\* A call that returned the pending promise (line 19) settles with it.
joinerSettle(c) ==
    /\ callers[c].pc = "joined"
    /\ LET l == callers[c].load
       IN  /\ loads[l].state # "pending"
           /\ IF loads[l].state = "fulfilled"
              THEN callers' = [callers EXCEPT ![c].pc = "returned", ![c].value = l]
              ELSE callers' = [callers EXCEPT ![c].pc = "threw"]
    /\ UNCHANGED <<now, cache, pendingLoads, loads>>

JoinerSettle(c) ==
    /\ joinerSettle(c)
    /\ UNCHANGED <<execVars, intentVars, stageVars>>

\* Date.now() advances.
Tick ==
    /\ now < MaxTime
    /\ now' = now + 1
    /\ UNCHANGED <<cache, pendingLoads, loads, callers>>
    /\ UNCHANGED <<execVars, intentVars, stageVars>>

\* invalidate(key): this.cache.delete(key).  The loader invocations made for
\* the key so far are marked as preceding an invalidation.
Invalidate(k) ==
    /\ cache' = [cache EXCEPT ![k] = NoEntry]
    /\ loads' = [l \in 1..Len(loads) |->
                    IF loads[l].key = k /\ loads[l].dropped = "no"
                    THEN [loads[l] EXCEPT !.dropped = "invalidate"] ELSE loads[l]]
    /\ UNCHANGED <<now, pendingLoads, callers>>
    /\ UNCHANGED <<execVars, intentVars, stageVars>>

\* clear(): this.cache.clear(); this.pendingLoads.clear()
Clear ==
    /\ cache' = [k \in CacheKeys |-> NoEntry]
    /\ pendingLoads' = [k \in CacheKeys |-> 0]
    /\ loads' = [l \in 1..Len(loads) |-> [loads[l] EXCEPT !.dropped = "clear"]]
    /\ UNCHANGED <<now, callers>>
    /\ UNCHANGED <<execVars, intentVars, stageVars>>

NextCache ==
    \/ \E c \in CallerIds, k \in CacheKeys : GetOrLoad(c, k)
    \/ \E l \in 1..MaxCallers : LoaderSettle(l)
    \/ \E c \in CallerIds : OwnerResume(c)
    \/ \E c \in CallerIds : JoinerSettle(c)
    \/ Tick

NextCacheInvalidate ==
    \/ \E c \in CallerIds, k \in CacheKeys : GetOrLoad(c, k)
    \/ \E l \in 1..MaxCallers : LoaderSettle(l)
    \/ \E c \in CallerIds : OwnerResume(c)
    \/ \E c \in CallerIds : JoinerSettle(c)
    \/ \E k \in CacheKeys : Invalidate(k)
    \/ Clear
    \/ Tick

(***************************************************************************)
(* Keyword classifier (src/src/intent/classifier.ts) and the hybrid intent *)
(* stage (createIntentHandler).  Strings are sequences of characters;      *)
(* numbers that are quotients are kept as reduced fractions.               *)
(***************************************************************************)
Alphabet == {"a", "b", "A", " "}

Messages == UNION {[1..n -> Alphabet] : n \in 0..MaxMsgLen}

RECURSIVE GCD(_, _)
GCD(m, n) == IF n = 0 THEN m ELSE GCD(n, m % n)

\* The number n / d.
Ratio(n, d) == [n |-> n \div GCD(n, d), d |-> d \div GCD(n, d)]

Zero == Ratio(0, 1)

One == Ratio(1, 1)

Half == Ratio(1, 2)

\* x >= y on numbers
Geq(x, y) == x.n * y.d >= y.n * x.d

MinRatio(x, y) == IF Geq(x, y) THEN y ELSE x

MaxInt(m, n) == IF m >= n THEN m ELSE n

\* message.toLowerCase()
toLowerCase(m) == [i \in 1..Len(m) |-> IF m[i] = "A" THEN "a" ELSE m[i]]

\* lowerMessage.includes(keyword)
includes(m, kw) ==
    \E i \in 0..(Len(m) - Len(kw)) : SubSeq(m, i + 1, i + Len(kw)) = kw

\* Mutant: every keyword counts one point.
wordCountOne(kw) == 1

\* keyword.split(' ').length
wordCount(kw) == 1 + Cardinality({i \in 1..Len(kw) : kw[i] = " "})

\* config.patterns of the classifier: the pattern sets looked at
PatternSets ==
    { << [category |-> "greeting", keywords |-> << <<"a", " ", "b">> >>],
         [category |-> "help",     keywords |-> << <<"b">>, <<"a", "a">> >>] >>,
      << [category |-> "greeting", keywords |-> << <<"a">> >>],
         [category |-> "help",     keywords |-> << <<"b">> >>],
         [category |-> "question", keywords |-> << <<"a", "b">>, <<"b", " ", "a">> >>] >>,
      << >> }

\* config.metadata of the classifier: tones, deepLinks, requiresAuth
tones == [c \in {"greeting", "help", "question"} |->
            IF c = "greeting" THEN "warm"
            ELSE IF c = "question" THEN "thorough" ELSE Undefined]

deepLinks == [c \in {"greeting", "help", "question"} |->
                IF c = "help" THEN "/help"
                ELSE IF c = "question" THEN "/faq" ELSE Undefined]

requiresAuth == {"help"}

NoMetadata ==
    [defined |-> FALSE, deepLink |-> Undefined, tone |-> Undefined,
     requiresAuth |-> FALSE, classificationMethod |-> Undefined,
     reasoning |-> Undefined]

NoList == [defined |-> FALSE, items |-> <<>>]

\* { intent: 'general', confidence: 0 }
DefaultIntent ==
    [intent |-> "general", confidence |-> Zero, matchedKeywords |-> NoList,
     method |-> Undefined, metadata |-> NoMetadata]

NoIntent ==
    [intent |-> Undefined, confidence |-> Zero, matchedKeywords |-> NoList,
     method |-> Undefined, metadata |-> NoMetadata]

matchedKeywords(lowerMessage, p) ==
    SelectSeq(p.keywords, LAMBDA kw : includes(lowerMessage, kw))

RECURSIVE score(_)
score(kws) == IF kws = <<>> THEN 0 ELSE wordCount(Head(kws)) + score(Tail(kws))

\* The loop of lines 16-35.
intentScores(lowerMessage, patterns) ==
    SelectSeq(
       [i \in 1..Len(patterns) |->
           [intent   |-> patterns[i].category,
            score    |-> score(matchedKeywords(lowerMessage, patterns[i])),
            keywords |-> matchedKeywords(lowerMessage, patterns[i])]],
       LAMBDA r : r.score > 0)

\* One step of the stable sort by descending score.
InsertByScore(sorted, x) ==
    LET n == Cardinality({i \in 1..Len(sorted) : sorted[i].score >= x.score})
    IN  SubSeq(sorted, 1, n) \o <<x>> \o SubSeq(sorted, n + 1, Len(sorted))

RECURSIVE SortByScore(_)
SortByScore(s) ==
    IF s = <<>> THEN <<>>
    ELSE InsertByScore(SortByScore(SubSeq(s, 1, Len(s) - 1)), s[Len(s)])

\* The result.metadata of lines 61-72.
MetadataFor(intent, hasMetadata) ==
    IF ~hasMetadata THEN NoMetadata
    ELSE [defined |-> TRUE,
          deepLink |-> IF intent \in DOMAIN deepLinks THEN deepLinks[intent]
                       ELSE Undefined,
          tone |-> IF intent \in DOMAIN tones THEN tones[intent] ELSE Undefined,
          requiresAuth |-> intent \in requiresAuth,
          classificationMethod |-> Undefined,
          reasoning |-> Undefined]

detectIntent(message, cfg) ==
    LET sorted == SortByScore(intentScores(toLowerCase(message), cfg.patterns))
    IN  IF sorted = <<>>
        THEN [intent |-> "general", confidence |-> Zero,
              matchedKeywords |-> [defined |-> TRUE, items |-> <<>>],
              method |-> Undefined, metadata |-> NoMetadata]
        ELSE LET bestScore == sorted[1].score
                 secondBestScore == IF Len(sorted) >= 2 THEN sorted[2].score ELSE 0
                 margin == bestScore - secondBestScore
             IN  [intent |-> sorted[1].intent,
                  confidence |-> MinRatio(Ratio(margin, MaxInt(bestScore, 1)), One),
                  matchedKeywords |-> [defined |-> TRUE, items |-> sorted[1].keywords],
                  method |-> Undefined,
                  metadata |-> MetadataFor(sorted[1].intent, cfg.hasMetadata)]

\* config.llmFallback
NoThreshold == [defined |-> FALSE, n |-> 0, d |-> 1]

Thresholds ==
    {NoThreshold, [defined |-> TRUE, n |-> 3, d |-> 4], [defined |-> TRUE, n |-> 0, d |-> 1]}

NoFallback ==
    [defined |-> FALSE, enabled |-> FALSE, hasClassifier |-> FALSE,
     confidenceThreshold |-> NoThreshold]

LlmFallbacks ==
    {NoFallback} \cup
    [defined : {TRUE}, enabled : BOOLEAN, hasClassifier : BOOLEAN,
     confidenceThreshold : Thresholds]

\* The handler's configuration and its input: the last message and its role
\* ("none": the request has no message).
IntentConfigs ==
    [message : Messages, role : {"user", "assistant", "none"},
     llmFallback : LlmFallbacks, hasOnFallback : BOOLEAN, hasMetadata : BOOLEAN,
     patterns : PatternSets]

\* What the LLM classifier may resolve to.
LlmResults ==
    [intent : {"greeting", "help", "question"}, confidence : {Ratio(9, 10)},
     reasoning : {"because", Undefined}]

NoLlmResult == [intent |-> Undefined, confidence |-> Zero, reasoning |-> Undefined]

\* How a handler call ends: it is still running, its promise resolves with a
\* context (whose error field is recorded), or its promise rejects.
Running == [kind |-> "running", error |-> NoError]

\* return { ...context, [contextKey]: ... }: the input context has no error
Resolved == [kind |-> "resolved", error |-> NoError]

\* Mutant: the catch block hands the fault on.
IntentCatchRethrows == [out |-> NoIntent, return |-> [kind |-> "rejected", error |-> NoError]]

\* The catch of lines 134-149: the default is written, the call resolves.
IntentCatch == [out |-> DefaultIntent, return |-> Resolved]

\* config.llmFallback?.confidenceThreshold ?? 0.5
confidenceThreshold(cfg) ==
    IF cfg.llmFallback.defined /\ cfg.llmFallback.confidenceThreshold.defined
    THEN [n |-> cfg.llmFallback.confidenceThreshold.n,
          d |-> cfg.llmFallback.confidenceThreshold.d]
    ELSE Half

\* keywordResult.confidence >= confidenceThreshold || !config.llmFallback?.enabled
KeywordSuffices(kw, cfg) ==
    \/ Geq(kw.confidence, confidenceThreshold(cfg))
    \/ ~(cfg.llmFallback.defined /\ cfg.llmFallback.enabled)

\* The result written on the LLM path (lines 122-133).
LlmIntent(kw, llm) ==
    [intent |-> llm.intent, confidence |-> llm.confidence,
     matchedKeywords |-> NoList, method |-> Undefined,
     metadata |-> [kw.metadata EXCEPT !.defined = TRUE,
                                      !.classificationMethod = "llm",
                                      !.reasoning = llm.reasoning]]

\* Mutant: the callback is told the keyword tier's intent twice.
FallbackDataKeywordTwice(cfg, kw, llm) ==
    [message |-> cfg.message, keywordIntent |-> kw.intent,
     keywordConfidence |-> kw.confidence, llmIntent |-> kw.intent,
     llmConfidence |-> llm.confidence, matchedKeywords |-> kw.matchedKeywords]

FallbackData(cfg, kw, llm) ==
    [message |-> cfg.message, keywordIntent |-> kw.intent,
     keywordConfidence |-> kw.confidence, llmIntent |-> llm.intent,
     llmConfidence |-> llm.confidence, matchedKeywords |-> kw.matchedKeywords]

IntentInit ==
    /\ ipc = "start"
    /\ icfg \in IntentConfigs
    /\ kwResult = NoIntent
    /\ llmCalls = 0
    /\ fallbackLog = <<>>
    /\ intentOut = NoIntent
    /\ llmResult = NoLlmResult
    /\ intentReturn = Running

\* The handler up to its return or to await ...classifier.classify(content).
\* An enabled fallback without a classifier makes line 95 throw a TypeError,
\* which the catch of line 134 turns into the default.
IntentHandler ==
    /\ ipc = "start"
    /\ IF icfg.role # "user"
       THEN /\ intentOut' = DefaultIntent
            /\ intentReturn' = Resolved
            /\ ipc' = "done"
            /\ UNCHANGED <<kwResult, llmCalls>>
       ELSE LET kw == detectIntent(icfg.message, icfg)
            IN  /\ kwResult' = kw
                /\ IF KeywordSuffices(kw, icfg)
                   THEN /\ intentOut' = kw
                        /\ intentReturn' = Resolved
                        /\ ipc' = "done"
                        /\ UNCHANGED llmCalls
                   ELSE IF ~icfg.llmFallback.hasClassifier
                   THEN /\ intentOut' = IntentCatch.out
                        /\ intentReturn' = IntentCatch.return
                        /\ ipc' = "done"
                        /\ UNCHANGED llmCalls
                   ELSE /\ llmCalls' = llmCalls + 1
                        /\ ipc' = "llm"
                        /\ UNCHANGED <<intentOut, intentReturn>>
    /\ UNCHANGED <<icfg, fallbackLog, llmResult>>
    /\ UNCHANGED <<execVars, cacheVars, stageVars>>

\* The LLM classifier resolves (lines 95-133).  onFallback, when given, is
\* called with the data; it returns, returns a promise that rejects, or
\* throws, and a throw reaches the catch of line 134.
LlmResolve ==
    /\ ipc = "llm"
    /\ \E llm \in LlmResults, cb \in {"returns", "rejects", "throws"} :
          /\ (~icfg.hasOnFallback) => cb = "returns"
          /\ fallbackLog' =
                IF icfg.hasOnFallback
                THEN Append(fallbackLog,
                            [data |-> FallbackData(icfg, kwResult, llm), outcome |-> cb])
                ELSE fallbackLog
          /\ llmResult' = llm
          /\ intentOut' = IF cb = "throws" THEN IntentCatch.out
                          ELSE LlmIntent(kwResult, llm)
          /\ intentReturn' = IF cb = "throws" THEN IntentCatch.return ELSE Resolved
    /\ ipc' = "done"
    /\ UNCHANGED <<icfg, kwResult, llmCalls>>
    /\ UNCHANGED <<execVars, cacheVars, stageVars>>

\* The LLM classifier throws or rejects (lines 134-149).
LlmReject ==
    /\ ipc = "llm"
    /\ intentOut' = IntentCatch.out
    /\ intentReturn' = IntentCatch.return
    /\ ipc' = "done"
    /\ UNCHANGED <<icfg, kwResult, llmCalls, fallbackLog, llmResult>>
    /\ UNCHANGED <<execVars, cacheVars, stageVars>>

NextIntent == IntentHandler \/ LlmResolve \/ LlmReject

(***************************************************************************)
(* ContextOptimizer (buildContext).  Texts are strings; a section's topics *)
(* are kept as a set, an absent priority as 0.                             *)
(***************************************************************************)
Topics == {"help", "billing"}

\* The sections a catalog is made of.
SectionPool ==
    { [id |-> "core", content |-> "A", topics |-> {}, alwaysInclude |-> TRUE,
       priority |-> 0],
      [id |-> "help", content |-> "BB", topics |-> {"help"}, alwaysInclude |-> FALSE,
       priority |-> 2],
      [id |-> "bill", content |-> "CCCC", topics |-> {"billing", "help"},
       alwaysInclude |-> FALSE, priority |-> 2],
      [id |-> "core", content |-> "DDD", topics |-> {"billing"}, alwaysInclude |-> FALSE,
       priority |-> 1],
      [id |-> "misc", content |-> "EEEEE", topics |-> {}, alwaysInclude |-> FALSE,
       priority |-> 3] }

Catalogs == UNION {[1..n -> SectionPool] : n \in 0..MaxSections}

NoStrategy == [defined |-> FALSE, firstMessage |-> Undefined, followUp |-> Undefined]

Strategies ==
    {NoStrategy} \cup
    [defined : {TRUE}, firstMessage : {"full", "selective"},
     followUp : {"full", "selective"}]

NoTones == [defined |-> FALSE, map |-> [t \in {} |-> ""]]

ToneMaps == {NoTones, [defined |-> TRUE, map |-> [t \in {"friendly"} |-> "T"]]}

Tones == {Undefined, "friendly", "formal"}

ContextConfigs == [sections : Catalogs, strategy : Strategies, toneInstructions : ToneMaps]

NoSelection ==
    [systemPrompt |-> Undefined, sectionsIncluded |-> <<>>, totalSections |-> 0,
     tokenEstimate |-> 0, maxTokenEstimate |-> 0]

\* Mutant: the policy is not looked at, as if useFullContext = isFirstMessage.
useFullContextFirstOnly(isFirstMessage, strategy) == isFirstMessage

\* lines 11-13
useFullContext(isFirstMessage, strategy) ==
    \/ isFirstMessage /\ ~(strategy.defined /\ strategy.firstMessage = "selective")
    \/ ~isFirstMessage /\ strategy.defined /\ strategy.followUp = "full"

\* the predicate of sections.filter (lines 20-26)
isSelected(section, topics) ==
    \/ section.alwaysInclude
    \/ section.topics \cap topics # {}

\* Mutant: a section is put in front of the sections of its own priority.
InsertBeforeEqualPriority(sorted, x) ==
    LET n == Cardinality({i \in 1..Len(sorted) : sorted[i].priority > x.priority})
    IN  SubSeq(sorted, 1, n) \o <<x>> \o SubSeq(sorted, n + 1, Len(sorted))

\* One step of the stable sort (b.priority || 0) - (a.priority || 0).
InsertByPriority(sorted, x) ==
    LET n == Cardinality({i \in 1..Len(sorted) : sorted[i].priority >= x.priority})
    IN  SubSeq(sorted, 1, n) \o <<x>> \o SubSeq(sorted, n + 1, Len(sorted))

RECURSIVE SortByPriority(_)
SortByPriority(s) ==
    IF s = <<>> THEN <<>>
    ELSE InsertByPriority(SortByPriority(SubSeq(s, 1, Len(s) - 1)), s[Len(s)])

\* lines 15-29
selectedSections(sections, topics, useFull) ==
    IF useFull THEN sections
    ELSE SortByPriority(SelectSeq(sections, LAMBDA sec : isSelected(sec, topics)))

\* array.join(sep)
RECURSIVE join(_, _)
join(texts, sep) ==
    IF texts = <<>> THEN ""
    ELSE IF Len(texts) = 1 THEN texts[1]
    ELSE texts[1] \o sep \o join(Tail(texts), sep)

contents(sections) == [i \in 1..Len(sections) |-> sections[i].content]

ids(sections) == [i \in 1..Len(sections) |-> sections[i].id]

\* toneInstructions?.[tone]
toneInstruction(toneInstructions, tone) ==
    IF toneInstructions.defined /\ tone \in DOMAIN toneInstructions.map
    THEN toneInstructions.map[tone]
    ELSE Undefined

\* lines 31-35
withTone(prompt, toneInstructions, tone) ==
    IF tone # Undefined /\ toneInstruction(toneInstructions, tone) # Undefined
    THEN prompt \o "\n\n" \o toneInstruction(toneInstructions, tone)
    ELSE prompt

\* Mutant: the estimate is rounded down.
tokensFloor(text) == Len(text) \div 4

\* Math.ceil(text.length / 4)
tokens(text) == (Len(text) + 3) \div 4

buildContext(topics, isFirstMessage, cfg, tone) ==
    LET selected == selectedSections(cfg.sections, topics,
                                     useFullContext(isFirstMessage, cfg.strategy))
        systemPrompt == withTone(join(contents(selected), "\n\n"),
                                 cfg.toneInstructions, tone)
    IN  [systemPrompt |-> systemPrompt,
         sectionsIncluded |-> ids(selected),
         totalSections |-> Len(cfg.sections),
         tokenEstimate |-> tokens(systemPrompt),
         maxTokenEstimate |-> tokens(join(contents(cfg.sections), "\n\n"))]

OptInit ==
    /\ optIn \in [config : ContextConfigs, topics : SUBSET Topics,
                   isFirstMessage : BOOLEAN, tone : Tones, built : {FALSE}]
    /\ optOut = NoSelection

\* ContextOptimizer.build(topics, isFirstMessage, tone)
Build ==
    /\ ~optIn.built
    /\ optIn' = [optIn EXCEPT !.built = TRUE]
    /\ optOut' = buildContext(optIn.topics, optIn.isFirstMessage, optIn.config, optIn.tone)
    /\ UNCHANGED <<execVars, cacheVars, intentVars, dynVars, gateVars>>

NextOptimizer == Build

(***************************************************************************)
(* createDynamicContextHandler: the loader, the TTL cache in front of it   *)
(* and the fallback optimizer.  A handler call c uses the cache as the     *)
(* getOrLoad call c.                                                       *)
(***************************************************************************)
\* What getTopics, isFirstMessage, getTone and getVariant give for a request.
DynRequests ==
    { [variant |-> Undefined, topics |-> {},          isFirstMessage |-> TRUE,
       tone |-> Undefined],
      [variant |-> Undefined, topics |-> {"help"},    isFirstMessage |-> FALSE,
       tone |-> "friendly"],
      [variant |-> "v1",      topics |-> {"help"},    isFirstMessage |-> FALSE,
       tone |-> Undefined],
      [variant |-> "v1",      topics |-> {"billing"}, isFirstMessage |-> TRUE,
       tone |-> "friendly"] }

NoRequest == [variant |-> Undefined, topics |-> {}, isFirstMessage |-> FALSE,
              tone |-> Undefined]

\* The sections loader.load resolves to, for each variant.
loaderSections(variant) ==
    IF variant = "v1"
    THEN << [id |-> "bill", content |-> "CCCC", topics |-> {"billing", "help"},
             alwaysInclude |-> FALSE, priority |-> 2],
            [id |-> "core", content |-> "A", topics |-> {}, alwaysInclude |-> TRUE,
             priority |-> 0] >>
    ELSE << [id |-> "core", content |-> "A", topics |-> {}, alwaysInclude |-> TRUE,
             priority |-> 0],
            [id |-> "help", content |-> "BB", topics |-> {"help"},
             alwaysInclude |-> FALSE, priority |-> 2] >>

\* The rows of the chatContext table that are active, with their variant.
chatContext ==
    << [id |-> "core", content |-> "A", topics |-> {}, alwaysInclude |-> TRUE,
        priority |-> 0, variant |-> Undefined],
       [id |-> "help", content |-> "BB", topics |-> {"help"}, alwaysInclude |-> FALSE,
        priority |-> 2, variant |-> Undefined],
       [id |-> "bill", content |-> "CCCC", topics |-> {"billing", "help"},
        alwaysInclude |-> FALSE, priority |-> 2, variant |-> "v1"],
       [id |-> "vip", content |-> "DDD", topics |-> {"billing"}, alwaysInclude |-> TRUE,
        priority |-> 1, variant |-> "v1"] >>

\* BasicPrismaContextLoader.load (src/src/adapters/index.ts, lines 31-55):
\* findMany where variant (when given) and topics hasSome (when not empty),
\* ordered by priority descending.
prismaLoad(args) ==
    LET rows == SelectSeq(chatContext, LAMBDA row :
                    /\ (args.variant # Undefined => row.variant = args.variant)
                    /\ (args.topics # {} => row.topics \cap args.topics # {}))
        found == SortByPriority(rows)
    IN  [k \in 1..Len(found) |->
            [id |-> found[k].id, content |-> found[k].content, topics |-> found[k].topics,
             alwaysInclude |-> found[k].alwaysInclude, priority |-> found[k].priority]]

\* What config.loader.load(args) resolves to.
load(args) ==
    IF dcfg.loader = "prisma" THEN prismaLoad(args) ELSE loaderSections(args.variant)

\* config.fallbackOptimizer['config']
fallbackConfig ==
    [sections |-> << [id |-> "misc", content |-> "EEEEE", topics |-> {},
                      alwaysInclude |-> FALSE, priority |-> 3],
                     [id |-> "core", content |-> "DDD", topics |-> {"billing"},
                      alwaysInclude |-> FALSE, priority |-> 1] >>,
     strategy |-> NoStrategy,
     toneInstructions |-> [defined |-> TRUE, map |-> [t \in {"friendly"} |-> "T"]]]

LoaderFault == "loader fault"

NoOutput == [kind |-> "none", selection |-> NoSelection, variant |-> Undefined]

IdleCall == [pc |-> "idle", req |-> NoRequest, load |-> 0, out |-> NoOutput,
             error |-> NoError]

\* Mutant: every variant is kept under one key.
cacheKeyShared(variant) == "default"

\* `${variant || 'default'}`
cacheKey(variant) == IF variant = Undefined THEN "default" ELSE variant

\* The error of the outer catch (lines 149-157).
dynamicContextError(errorMessage) ==
    [message |-> "Failed to build context. Please try again.", statusCode |-> 500,
     step |-> "dynamicContext", details |-> errorMessage]

\* Mutant: the fallback optimizer is not consulted.
onLoadFailureNoFallback(req, errorMessage) ==
    [out |-> NoOutput, error |-> dynamicContextError(errorMessage)]

\* The inner catch (lines 69-86): the fallback optimizer's build, or the
\* rethrown fault, which the outer catch turns into the failure.
onLoadFailure(req, errorMessage) ==
    IF dcfg.hasFallback
    THEN [out |-> [kind |-> "fallback",
                   selection |-> buildContext(req.topics, req.isFirstMessage,
                                              fallbackConfig, req.tone),
                   variant |-> Undefined],
          error |-> NoError]
    ELSE [out |-> NoOutput, error |-> dynamicContextError(errorMessage)]

\* Lines 88-123: the selection over the loaded sections.
dynamicResult(sections, req) ==
    LET selected == selectedSections(sections, req.topics, req.isFirstMessage)
        systemPrompt ==
           withTone(join(contents(selected), "\n\n"),
                    IF dcfg.hasFallback THEN fallbackConfig.toneInstructions ELSE NoTones,
                    req.tone)
    IN  [kind |-> "dynamic",
         selection |-> [systemPrompt |-> systemPrompt,
                        sectionsIncluded |-> ids(selected),
                        totalSections |-> Len(sections),
                        tokenEstimate |-> tokens(systemPrompt),
                        maxTokenEstimate |-> tokens(join(contents(sections), "\n\n"))],
         variant |-> req.variant]

DynInit ==
    /\ dcfg \in [hasCache : BOOLEAN, hasFallback : BOOLEAN, loader : {"catalog"}]
    /\ dyn = [c \in CallerIds |-> IdleCall]
    /\ loadArgs = <<>>

\* The handler from the point where its awaited sections have arrived or the
\* await has thrown (lines 64-157); l is the loader promise they came from.
dynFinish(call, ok, l) ==
    IF ok
    THEN [call EXCEPT !.pc = "done", !.load = l,
                      !.out = dynamicResult(load(loadArgs'[l]), call.req)]
    ELSE [call EXCEPT !.pc = "done", !.load = l,
                      !.out = onLoadFailure(call.req, LoaderFault).out,
                      !.error = onLoadFailure(call.req, LoaderFault).error]

\* The handler is called (lines 30-68).  A throwing onVariantUsed reaches the
\* outer catch before anything is loaded; a cache hit lets the call run to
\* its end; otherwise the call waits for getOrLoad or for the loader.
DynHandler(c) ==
    /\ dyn[c].pc = "idle"
    /\ callers[c].pc = "idle"
    /\ \E req \in DynRequests, cb \in {"returns", "throws"} :
          LET args == [topics |-> req.topics, variant |-> req.variant,
                       isFirstMessage |-> req.isFirstMessage]
              waiting == [pc |-> "cache", req |-> req, load |-> 0, out |-> NoOutput,
                          error |-> NoError]
          IN  /\ (cb = "throws") => req.variant # Undefined
              /\ IF cb = "throws"
                 THEN /\ dyn' = [dyn EXCEPT ![c] =
                             [pc |-> "done", req |-> req, load |-> 0, out |-> NoOutput,
                              error |-> dynamicContextError(CallbackFault)]]
                      /\ UNCHANGED <<cacheVars, loadArgs>>
                 ELSE IF dcfg.hasCache
                 THEN /\ getOrLoad(c, cacheKey(req.variant))
                      /\ loadArgs' = IF Len(loads') > Len(loads)
                                     THEN Append(loadArgs, args) ELSE loadArgs
                      /\ dyn' = [dyn EXCEPT ![c] =
                             IF callers'[c].pc = "returned"
                             THEN dynFinish(waiting, TRUE, callers'[c].value)
                             ELSE waiting]
                 ELSE /\ loads' = Append(loads, [key |-> Undefined, state |-> "pending",
                                              dropped |-> "no"])
                      /\ loadArgs' = Append(loadArgs, args)
                      /\ dyn' = [dyn EXCEPT ![c] =
                             [pc |-> "loader", req |-> req, load |-> Len(loads) + 1,
                              out |-> NoOutput, error |-> NoError]]
                      /\ UNCHANGED <<now, cache, pendingLoads, callers>>
    /\ UNCHANGED dcfg
    /\ UNCHANGED <<execVars, intentVars, optVars, gateVars>>

\* getOrLoad resumes after await loadPromise and the handler after it.
DynOwnerResume(c) ==
    /\ dyn[c].pc = "cache"
    /\ ownerResume(c)
    /\ UNCHANGED <<dcfg, loadArgs>>
    /\ dyn' = [dyn EXCEPT ![c] =
                  dynFinish(dyn[c], callers'[c].pc = "returned", callers[c].load)]
    /\ UNCHANGED <<execVars, intentVars, optVars, gateVars>>

\* The pending promise getOrLoad returned settles and the handler resumes.
DynJoinerSettle(c) ==
    /\ dyn[c].pc = "cache"
    /\ joinerSettle(c)
    /\ UNCHANGED <<dcfg, loadArgs>>
    /\ dyn' = [dyn EXCEPT ![c] =
                  dynFinish(dyn[c], callers'[c].pc = "returned", callers[c].load)]
    /\ UNCHANGED <<execVars, intentVars, optVars, gateVars>>

\* Without a cache: the handler resumes after await config.loader.load(...).
DynLoaderResume(c) ==
    /\ dyn[c].pc = "loader"
    /\ loads[dyn[c].load].state # "pending"
    /\ UNCHANGED <<dcfg, loadArgs>>
    /\ dyn' = [dyn EXCEPT ![c] =
                  dynFinish(dyn[c], loads[dyn[c].load].state = "fulfilled", dyn[c].load)]
    /\ UNCHANGED <<execVars, cacheVars, intentVars, optVars, gateVars>>

\* A handler whose loader is a BasicPrismaContextLoader.
DynInitPrisma ==
    /\ dcfg \in [hasCache : BOOLEAN, hasFallback : BOOLEAN, loader : {"prisma"}]
    /\ dyn = [c \in CallerIds |-> IdleCall]
    /\ loadArgs = <<>>

\* The calls made while every cache entry is inside its TTL.
NextDynamicInTtl ==
    \/ \E c \in CallerIds : DynHandler(c)
    \/ \E l \in 1..MaxCallers : LoaderSettle(l)
    \/ \E c \in CallerIds : DynOwnerResume(c)
    \/ \E c \in CallerIds : DynJoinerSettle(c)
    \/ \E c \in CallerIds : DynLoaderResume(c)

NextDynamic ==
    \/ \E c \in CallerIds : DynHandler(c)
    \/ \E l \in 1..MaxCallers : LoaderSettle(l)
    \/ \E c \in CallerIds : DynOwnerResume(c)
    \/ \E c \in CallerIds : DynJoinerSettle(c)
    \/ \E c \in CallerIds : DynLoaderResume(c)
    \/ Tick

(***************************************************************************)
(* createRateLimitHandler (src/unnamed/part_007), run by                   *)
(* executeOrchestration as the first step of a plan of two sequential      *)
(* steps; the second step's handler returns its context unchanged.         *)
(***************************************************************************)
MaxRetryAfter == 2

RateStepName == "rateLimit"

RateConfigs ==
    [getIdentifier : {"absent", "returns", "undefined", "throws"},
     identifierKey : {Undefined, "userId"},
     metadataUserId : {Undefined, "u2"},
     onStepCompleteThrows : BOOLEAN,
     onErrorThrows : BOOLEAN]

\* retryAfter?: <<>> when the limiter gives none.
LimiterResults ==
    [allowed : BOOLEAN, retryAfter : {<<>>} \cup {<<n>> : n \in 0..MaxRetryAfter}]

LimiterFault == "limiter fault"
IdentifierFault == "identifier fault"

identifier(cfg) ==
    IF cfg.getIdentifier = "returns" THEN "user-1"
    ELSE IF cfg.identifierKey # Undefined /\ cfg.metadataUserId # Undefined
         THEN cfg.metadataUserId
         ELSE "anonymous"

rateLimitErrorNoRetryAfter(res) ==
    [message |-> "Too many requests. Please try again later.", statusCode |-> 429,
     retryAfter |-> <<>>, step |-> "rateLimit"]

rateLimitError(res) ==
    [message |-> "Too many requests. Please try again later.", statusCode |-> 429,
     retryAfter |-> res.retryAfter, step |-> "rateLimit"]

\* The context the handler returns: the value under outputKey and the error.
rateLimitReturn(res) ==
    IF ~res.allowed
    THEN [rateLimit |-> <<res>>, error |-> <<rateLimitError(res)>>]
    ELSE [rateLimit |-> <<res>>, error |-> <<>>]

rateLimitCatch(errorMessage) ==
    [rateLimit |-> <<[allowed |-> TRUE, error |-> errorMessage]>>, error |-> <<>>]

NoRateOutput == [rateLimit |-> <<>>, error |-> <<>>]

NoPlanResult == [returned |-> FALSE, success |-> FALSE, error |-> <<>>]

planFailure(error) == [returned |-> TRUE, success |-> FALSE, error |-> <<error>>]

\* config.onError is called by the step's catch block; when it throws there,
\* the outer catch writes the failure.
afterStepThrew(errorMessage) ==
    IF rcfg.onErrorThrows
    THEN planFailure(UnexpectedError(CallbackFault))
    ELSE planFailure(ThrownError(RateStepName, errorMessage))

RateInit ==
    /\ rcfg \in RateConfigs
    /\ rl = [pc |-> "idle", checks |-> <<>>, limiter |-> <<>>, out |-> NoRateOutput,
             stepCompleteCalls |-> 0, onErrorCalls |-> 0, laterRan |-> 0,
             plan |-> NoPlanResult]

\* executeSingleStep calls the handler, which runs up to await limiter.check.
RateLimitHandler ==
    /\ rl.pc = "idle"
    /\ IF rcfg.getIdentifier = "throws"
       THEN rl' = [rl EXCEPT !.pc = "returned", !.out = rateLimitCatch(IdentifierFault)]
       ELSE rl' = [rl EXCEPT !.pc = "check",
                             !.checks = Append(@, identifier(rcfg))]
    /\ UNCHANGED <<rcfg, modVars, execVars, cacheVars, intentVars, optVars, dynVars, moreVars>>

\* limiter.check resolves and the handler returns.
LimiterResolve ==
    /\ rl.pc = "check"
    /\ \E res \in LimiterResults :
          rl' = [rl EXCEPT !.pc = "returned", !.limiter = <<res>>,
                           !.out = rateLimitReturn(res)]
    /\ UNCHANGED <<rcfg, modVars, execVars, cacheVars, intentVars, optVars, dynVars, moreVars>>

\* limiter.check rejects or throws: the handler's catch allows the request.
LimiterReject ==
    /\ rl.pc = "check"
    /\ rl' = [rl EXCEPT !.pc = "returned", !.out = rateLimitCatch(LimiterFault)]
    /\ UNCHANGED <<rcfg, modVars, execVars, cacheVars, intentVars, optVars, dynVars, moreVars>>

\* executeSingleStep resumes after await step.handler(ctx) and the for loop
\* looks at the result.
RateStepDone ==
    /\ rl.pc = "returned"
    /\ IF rcfg.onStepCompleteThrows
       THEN rl' = [rl EXCEPT !.pc = "done",
                             !.stepCompleteCalls = @ + 1,
                             !.onErrorCalls = @ + 1,
                             !.plan = afterStepThrew(CallbackFault)]
       ELSE IF rl.out.error # <<>>
            THEN IF rcfg.onErrorThrows
                 THEN rl' = [rl EXCEPT !.pc = "done",
                                       !.stepCompleteCalls = @ + 1,
                                       !.onErrorCalls = @ + 2,
                                       !.plan = afterStepThrew(CallbackFault)]
                 ELSE rl' = [rl EXCEPT !.pc = "done",
                                       !.stepCompleteCalls = @ + 1,
                                       !.onErrorCalls = @ + 1,
                                       !.plan = planFailure(rl.out.error[1])]
            ELSE rl' = [rl EXCEPT !.pc = "next", !.stepCompleteCalls = @ + 1]
    /\ UNCHANGED <<rcfg, modVars, execVars, cacheVars, intentVars, optVars, dynVars, moreVars>>

\* The second step runs and executeOrchestration returns.
LaterStep ==
    /\ rl.pc = "next"
    /\ rl' = [rl EXCEPT !.pc = "done", !.laterRan = @ + 1,
                        !.stepCompleteCalls = @ + 1,
                        !.plan = [returned |-> TRUE, success |-> TRUE, error |-> <<>>]]
    /\ UNCHANGED <<rcfg, modVars, execVars, cacheVars, intentVars, optVars, dynVars, moreVars>>

NextRateLimit ==
    \/ RateLimitHandler
    \/ LimiterResolve
    \/ LimiterReject
    \/ RateStepDone
    \/ LaterStep

(***************************************************************************)
(* createModerationHandler (src/unnamed/part_006).  Texts are sequences of *)
(* characters over Alphabet.  A regular expression is one of three forms:  *)
(* a literal text, /(.)\1{n,}/ (a character repeated more than n times)    *)
(* and /^[A-Z\s!]{n,}$/, each with or without the i flag.                  *)
(***************************************************************************)
Literal(src, i) == [kind |-> "literal", src |-> src, n |-> 0, ignoreCase |-> i]

Repeat(n, i) == [kind |-> "repeat", src |-> <<>>, n |-> n, ignoreCase |-> i]

Caps(n, i) == [kind |-> "caps", src |-> <<>>, n |-> n, ignoreCase |-> i]

\* A configured pattern: a string holding the source of a regular expression,
\* a RegExp, or an object whose test() throws.
StringPattern(re) == [type |-> "string", re |-> re]

RegExpPattern(re) == [type |-> "regexp", re |-> re]

ThrowingPattern == [type |-> "throwing", re |-> Literal(<<>>, FALSE)]

\* RegExp.prototype.test
test(re, content) ==
    IF re.kind = "literal"
    THEN IF re.ignoreCase
         THEN includes(toLowerCase(content), toLowerCase(re.src))
         ELSE includes(content, re.src)
    ELSE IF re.kind = "repeat"
    THEN \E i \in 1..(Len(content) - re.n) :
            \A j \in 1..re.n :
               IF re.ignoreCase
               THEN toLowerCase(content)[i + j] = toLowerCase(content)[i]
               ELSE content[i + j] = content[i]
    ELSE /\ Len(content) >= re.n
         /\ \A i \in 1..Len(content) :
               \/ content[i] \in {"A", " "}
               \/ re.ignoreCase /\ toLowerCase(content)[i] = "a"

DEFAULT_SPAM_PATTERNS == <<Repeat(10, TRUE), Caps(20, FALSE)>>

\* spamPatterns?: not given, or a list of patterns.
NoSpamPatterns == [given |-> FALSE, list |-> <<>>]

SpamPatternOptions ==
    {NoSpamPatterns} \cup
    {[given |-> TRUE, list |-> l] :
        l \in {<<>>,
               <<StringPattern(Literal(<<"b", " ">>, FALSE))>>,
               <<RegExpPattern(Literal(<<"A", "A">>, FALSE))>>,
               <<StringPattern(Repeat(2, FALSE))>>}}

ProfanityOptions == {<<>>, <<<<"A", "b">>>>, <<<<"b", "a">>, <<"a", " ">>>>}

CustomRuleOptions ==
    {<<>>,
     <<[pattern |-> StringPattern(Literal(<<"a", "b">>, FALSE)), reason |-> "string rule"]>>,
     <<[pattern |-> RegExpPattern(Literal(<<"a", "b">>, FALSE)), reason |-> "exact rule"]>>,
     <<[pattern |-> RegExpPattern(Literal(<<"a", "b">>, TRUE)), reason |-> "loose rule"]>>,
     <<[pattern |-> ThrowingPattern, reason |-> "throwing rule"]>>,
     <<[pattern |-> RegExpPattern(Literal(<<"b", "b">>, FALSE)), reason |-> "first rule"],
       [pattern |-> StringPattern(Literal(<<"a">>, FALSE)), reason |-> "second rule"]>>}

Roles == {"user", "assistant", "none"}

ModerationConfigs ==
    [spamPatterns : SpamPatternOptions,
     profanityWords : ProfanityOptions,
     customRules : CustomRuleOptions,
     role : Roles,
     content : Messages]

\* config.spamPatterns?.map(p => new RegExp(p, 'i')) ?? DEFAULT_SPAM_PATTERNS
spamPatterns(cfg) ==
    IF ~cfg.spamPatterns.given
    THEN DEFAULT_SPAM_PATTERNS
    ELSE [i \in 1..Len(cfg.spamPatterns.list) |->
            [cfg.spamPatterns.list[i].re EXCEPT !.ignoreCase = TRUE]]

NoModerationError == [message |-> Undefined, statusCode |-> 0, step |-> Undefined]

passed == [contentModeration |-> [passed |-> TRUE, reason |-> Undefined,
                                  error |-> Undefined],
           error |-> NoModerationError]

passedWithError(errorMessage) ==
    [contentModeration |-> [passed |-> TRUE, reason |-> Undefined,
                            error |-> errorMessage],
     error |-> NoModerationError]

flagged(reason, message) ==
    [contentModeration |-> [passed |-> FALSE, reason |-> reason, error |-> Undefined],
     error |-> [message |-> message, statusCode |-> 400, step |-> "contentModeration"]]

FlaggedMessage == "Your message was flagged as inappropriate. Please try again."

LanguageMessage ==
    "Your message contains inappropriate language. Please revise and try again."

NotAFunction == "rule.pattern.test is not a function"

PatternFault == "Pattern matching failed"

\* rule.pattern.test(content): a string has no test method.
ruleTest(rule, content) ==
    IF rule.pattern.type = "string"
    THEN [threw |-> TRUE, fault |-> NotAFunction, matched |-> FALSE]
    ELSE IF rule.pattern.type = "throwing"
    THEN [threw |-> TRUE, fault |-> PatternFault, matched |-> FALSE]
    ELSE [threw |-> FALSE, fault |-> Undefined, matched |-> test(rule.pattern.re, content)]

\* for (const rule of customRules) ... and the return after the loop
RECURSIVE customRulesFrom(_, _, _)
customRulesFrom(rules, k, content) ==
    IF k > Len(rules) THEN passed
    ELSE LET t == ruleTest(rules[k], content)
         IN  IF t.threw THEN passedWithError(t.fault)
             ELSE IF t.matched THEN flagged(rules[k].reason, FlaggedMessage)
             ELSE customRulesFrom(rules, k + 1, content)

moderate(cfg) ==
    IF cfg.role # "user" THEN passed
    ELSE IF \E i \in 1..Len(spamPatterns(cfg)) : test(spamPatterns(cfg)[i], cfg.content)
    THEN flagged("Message appears to be spam", FlaggedMessage)
    ELSE IF \E i \in 1..Len(cfg.profanityWords) :
               includes(toLowerCase(cfg.content), toLowerCase(cfg.profanityWords[i]))
    THEN flagged("Message contains inappropriate language", LanguageMessage)
    ELSE customRulesFrom(cfg.customRules, 1, cfg.content)

NoModeration == [contentModeration |-> <<>>, error |-> NoModerationError]

ModInit ==
    /\ mcfg \in ModerationConfigs
    /\ mod = [pc |-> "idle", out |-> NoModeration]

\* The handler has no await: one call is one step.
ModerationHandler ==
    /\ mod.pc = "idle"
    /\ mod' = [pc |-> "done", out |-> moderate(mcfg)]
    /\ UNCHANGED <<mcfg, rateVars, execVars, cacheVars, intentVars, optVars, dynVars, moreVars>>

NextModeration == ModerationHandler

(***************************************************************************)
(* The condition combinators and(), or(), not() (src/src/providers/        *)
(* index.ts).  A condition is a tree over leaf predicates; a leaf returns  *)
(* true or false or throws.  Leaves 1..MaxLeaves depend on the state, leaf *)
(* TrueLeaf is () => true and leaf FalseLeaf is () => false.               *)
(***************************************************************************)
MaxLeaves == 2
MaxConds == 3

TrueLeaf == MaxLeaves + 1
FalseLeaf == MaxLeaves + 2

LeafIds == 1..FalseLeaf

PredOutcomes == {"true", "false", "throws"}

Leaf(i) == [op |-> "leaf", id |-> i, args |-> <<>>]

Not(e) == [op |-> "not", id |-> 0, args |-> <<e>>]

And(es) == [op |-> "and", id |-> 0, args |-> es]

Or(es) == [op |-> "or", id |-> 0, args |-> es]

Leaves == {Leaf(i) : i \in LeafIds}

\* Conditions of one combinator over leaves, and of two.
Conds1 ==
    Leaves \cup {Not(e) : e \in Leaves}
           \cup {And(<<>>), Or(<<>>)}
           \cup {And(<<e, f>>) : e \in Leaves, f \in Leaves}
           \cup {Or(<<e, f>>) : e \in Leaves, f \in Leaves}

LeafChains == UNION {[1..n -> LeafIds] : n \in 0..MaxConds}

\* What the leaf predicates return for the state at hand.
Valuations ==
    {v \in [LeafIds -> PredOutcomes] : v[TrueLeaf] = "true" /\ v[FalseLeaf] = "false"}

\* !(await condition(context))
negate(out) ==
    IF out = "throws" THEN "throws" ELSE IF out = "true" THEN "false" ELSE "true"

\* Mutant: and() goes on after a false condition.
andStopsNever(out) == FALSE

\* if (!result) return false
andStops(out) == out = "false"

\* if (result) return true
orStops(out) == out = "true"

\* The outcome of calling a condition and the leaves it called, in order.
RECURSIVE evaluate(_, _)
RECURSIVE evaluateAnd(_, _, _)
RECURSIVE evaluateOr(_, _, _)
evaluate(e, v) ==
    IF e.op = "leaf" THEN [out |-> v[e.id], calls |-> <<e.id>>]
    ELSE IF e.op = "not"
    THEN LET r == evaluate(e.args[1], v)
         IN  [out |-> negate(r.out), calls |-> r.calls]
    ELSE IF e.op = "and" THEN evaluateAnd(e.args, 1, v)
    ELSE evaluateOr(e.args, 1, v)

evaluateAnd(args, k, v) ==
    IF k > Len(args) THEN [out |-> "true", calls |-> <<>>]
    ELSE LET r == evaluate(args[k], v)
         IN  IF r.out = "throws" THEN r
             ELSE IF andStops(r.out) THEN [out |-> "false", calls |-> r.calls]
             ELSE LET rest == evaluateAnd(args, k + 1, v)
                  IN  [out |-> rest.out, calls |-> r.calls \o rest.calls]

evaluateOr(args, k, v) ==
    IF k > Len(args) THEN [out |-> "false", calls |-> <<>>]
    ELSE LET r == evaluate(args[k], v)
         IN  IF r.out = "throws" THEN r
             ELSE IF orStops(r.out) THEN [out |-> "true", calls |-> r.calls]
             ELSE LET rest == evaluateOr(args, k + 1, v)
                  IN  [out |-> rest.out, calls |-> r.calls \o rest.calls]

NoOutcome == [out |-> Undefined, calls |-> <<>>]

CondInit ==
    cnd \in [pc : {"idle"}, p : Conds1, chain : LeafChains, val : Valuations,
             direct : {NoOutcome}, notNot : {NoOutcome}, andTrue : {NoOutcome},
             orFalse : {NoOutcome}, andChain : {NoOutcome}, orChain : {NoOutcome}]

\* p, not(not(p)), and(p, () => true) and or(p, () => false) are called
\* with the state.
CallRoundTrips ==
    /\ cnd.pc = "idle"
    /\ cnd' = [cnd EXCEPT
                  !.pc = "tripped",
                  !.direct = evaluate(cnd.p, cnd.val),
                  !.notNot = evaluate(Not(Not(cnd.p)), cnd.val),
                  !.andTrue = evaluate(And(<<cnd.p, Leaf(TrueLeaf)>>), cnd.val),
                  !.orFalse = evaluate(Or(<<cnd.p, Leaf(FalseLeaf)>>), cnd.val)]
    /\ UNCHANGED <<execVars, cacheVars, intentVars, optVars, dynVars, rateVars, modVars,
                   instVars, parseVars, authVars, planVars>>

\* and(...chain) and or(...chain) are called with the state.
CallChains ==
    /\ cnd.pc = "tripped"
    /\ cnd' = [cnd EXCEPT
                  !.pc = "done",
                  !.andChain = evaluate(And([i \in 1..Len(cnd.chain) |-> Leaf(cnd.chain[i])]),
                                        cnd.val),
                  !.orChain = evaluate(Or([i \in 1..Len(cnd.chain) |-> Leaf(cnd.chain[i])]),
                                       cnd.val)]
    /\ UNCHANGED <<execVars, cacheVars, intentVars, optVars, dynVars, rateVars, modVars,
                   instVars, parseVars, authVars, planVars>>

NextConditions ==
    \/ CallRoundTrips
    \/ CallChains

(***************************************************************************)
(* A ContextOptimizer instance (src/unnamed/part_009) on which build() is  *)
(* called several times.                                                   *)
(***************************************************************************)
MaxBuilds == 3

BuildInputs ==
    { [topics |-> {}, isFirstMessage |-> TRUE, tone |-> Undefined],
      [topics |-> {"help"}, isFirstMessage |-> FALSE, tone |-> "friendly"],
      [topics |-> {"billing"}, isFirstMessage |-> FALSE, tone |-> Undefined],
      [topics |-> {"help"}, isFirstMessage |-> TRUE, tone |-> "formal"] }

\* Mutant: the selection replaces the catalog.
sectionsAfterBuildSelected(sections, selected) == selected

\* config.sections after buildContext: the full branch only reads the array,
\* the selective branch filters into a new array and sorts that one.
sectionsAfterBuild(sections, selected) == sections

InstInit ==
    inst \in {[config |-> c, created |-> c, log |-> <<>>] : c \in ContextConfigs}

\* optimizer.build(topics, isFirstMessage, tone)
BuildCall ==
    /\ Len(inst.log) < MaxBuilds
    /\ \E in \in BuildInputs :
          LET cfg == inst.config
              sel == selectedSections(cfg.sections, in.topics,
                                      useFullContext(in.isFirstMessage, cfg.strategy))
          IN  inst' = [inst EXCEPT
                         !.log = Append(@, [in |-> in,
                                            out |-> buildContext(in.topics, in.isFirstMessage,
                                                                 cfg, in.tone)]),
                         !.config.sections = sectionsAfterBuild(cfg.sections, sel)]
    /\ UNCHANGED <<execVars, cacheVars, intentVars, optVars, dynVars, rateVars, modVars,
                   condVars, parseVars, authVars, planVars>>

NextInstance == BuildCall

(***************************************************************************)
(* parseResponse of the textual LLM classifier (src/src/intent/            *)
(* llm-classifier-text.ts).  A response text is a sequence of atoms: the   *)
(* field labels, written in either case, and single characters.            *)
(***************************************************************************)
MaxTextLen == 5

IntentLabels == {"INTENT:", "intent:"}

ConfidenceLabels == {"CONFIDENCE:"}

Labels == IntentLabels \cup ConfidenceLabels

Digits == {"1", "5"}

Letters == {"g", "G"}

Atoms == Labels \cup Digits \cup Letters \cup {" ", "."}

Texts == UNION {[1..n -> Atoms] : n \in 0..MaxTextLen}

CategoryOptions ==
    { {<<"g">>}, {<<"g">>, <<"g", "1">>}, {<<"G">>, <<"g", "g">>} }

General == <<"general">>

\* The characters of a label that \w matches, lower-cased.
labelWord(a) == IF a \in IntentLabels THEN "intent" ELSE "confidence"

digitValue(a) == IF a = "1" THEN 1 ELSE 5

lowerAtom(a) == IF a = "G" THEN "g" ELSE a

\* The end of the longest run of atoms of a class that starts at position i.
RECURSIVE runEnd(_, _, _)
runEnd(text, i, class) ==
    IF i <= Len(text) /\ text[i] \in class THEN runEnd(text, i + 1, class) ELSE i

\* The capture of (\w+) at position i, lower-cased: letters and digits, and
\* the word of a label that follows them at once.
wordAt(text, i) ==
    LET e == runEnd(text, i, Letters \cup Digits)
        run == [k \in 1..(e - i) |-> lowerAtom(text[i + k - 1])]
    IN  IF e <= Len(text) /\ text[e] \in Labels
        THEN Append(run, labelWord(text[e]))
        ELSE run

\* The capture of ([\d.]+) at position i.
numberAt(text, i) == SubSeq(text, i, runEnd(text, i, Digits \cup {"."}) - 1)

\* Where the capture of the leftmost match of /INTENT:\s*(\w+)/i starts;
\* 0 when the expression does not match.
intentMatch(text) ==
    LET starts == {i \in 1..Len(text) :
                     /\ text[i] \in IntentLabels
                     /\ wordAt(text, runEnd(text, i + 1, {" "})) # <<>>}
    IN  IF starts = {} THEN 0
        ELSE runEnd(text, (CHOOSE i \in starts : \A j \in starts : i <= j) + 1, {" "})

\* Where the capture of the leftmost match of /CONFIDENCE:\s*([\d.]+)/i
\* starts; 0 when the expression does not match.
confidenceMatch(text) ==
    LET starts == {i \in 1..Len(text) :
                     /\ text[i] \in ConfidenceLabels
                     /\ numberAt(text, runEnd(text, i + 1, {" "})) # <<>>}
    IN  IF starts = {} THEN 0
        ELSE runEnd(text, (CHOOSE i \in starts : \A j \in starts : i <= j) + 1, {" "})

RECURSIVE digitsValue(_)
digitsValue(ds) ==
    IF ds = <<>> THEN 0
    ELSE 10 * digitsValue(SubSeq(ds, 1, Len(ds) - 1)) + digitValue(ds[Len(ds)])

RECURSIVE Pow10(_)
Pow10(n) == IF n = 0 THEN 1 ELSE 10 * Pow10(n - 1)

NaN == [nan |-> TRUE, n |-> 0, d |-> 1]

Number(n, d) == [nan |-> FALSE, n |-> Ratio(n, d).n, d |-> Ratio(n, d).d]

\* parseFloat: the longest decimal literal the text starts with, else NaN.
parseFloat(cap) ==
    LET e == runEnd(cap, 1, Digits)
        int == SubSeq(cap, 1, e - 1)
        f == IF e <= Len(cap) /\ cap[e] = "."
             THEN SubSeq(cap, e + 1, runEnd(cap, e + 1, Digits) - 1)
             ELSE <<>>
    IN  IF int = <<>> /\ f = <<>> THEN NaN
        ELSE Number(digitsValue(int) * Pow10(Len(f)) + digitsValue(f), Pow10(Len(f)))

\* Math.max(0, Math.min(1, confidence)); NaN stays NaN.
clamp(c) == IF c.nan THEN c ELSE IF c.n > c.d THEN Number(1, 1) ELSE c

parseResponse(text, validCategories) ==
    LET im == intentMatch(text)
        word == IF im = 0 THEN General ELSE wordAt(text, im)
        cm == confidenceMatch(text)
        confidence == IF cm = 0 THEN Number(1, 2) ELSE parseFloat(numberAt(text, cm))
    IN  [intent |-> IF word \in validCategories THEN word ELSE General,
         confidence |-> clamp(confidence)]

NoParse == [intent |-> <<>>, confidence |-> NaN]

ParseInit ==
    prs \in [text : Texts, categories : CategoryOptions, pc : {"idle"}, out : {NoParse}]

\* parseResponse(result.text, config.categories)
Parse ==
    /\ prs.pc = "idle"
    /\ prs' = [prs EXCEPT !.pc = "done",
                          !.out = parseResponse(prs.text, prs.categories)]
    /\ UNCHANGED <<execVars, cacheVars, intentVars, optVars, dynVars, rateVars, modVars,
                   condVars, instVars, authVars, planVars>>

NextParse == Parse

(***************************************************************************)
(* isAuthenticated (src/src/providers/index.ts, lines 82-86) and steps     *)
(* gated by it or by not(isAuthenticated()), run by executeSingleStep.     *)
(* Values of request.metadata are written as their JavaScript literals.    *)
(***************************************************************************)
MaxGated == 2

UserIdValues == {Undefined, "''", "'u1'"}

AuthenticatedValues == {Undefined, "true", "false", "'yes'"}

AbsentMetadata == [given |-> FALSE, userId |-> Undefined, authenticated |-> Undefined]

Metadatas ==
    {AbsentMetadata} \cup [given : {TRUE}, userId : UserIdValues, authenticated : AuthenticatedValues]

\* ToBoolean of a value.
truthy(v) == v \notin {Undefined, "''", "false"}

\* !!(context.request.metadata?.userId || context.request.metadata?.authenticated)
isAuthenticated(metadata) == truthy(metadata.userId) \/ truthy(metadata.authenticated)

Gates == {"isAuthenticated", "not(isAuthenticated)"}

GatedHandlers == {"mark", "login"}

GatedSteps == [gate : Gates, handler : GatedHandlers]

GatedPlans == UNION {[1..n -> GatedSteps] : n \in 1..MaxGated}

\* step.shouldExecute(ctx)
shouldExecute(gate, metadata) ==
    IF gate = "isAuthenticated" THEN isAuthenticated(metadata) ELSE ~isAuthenticated(metadata)

\* The handler's result: "login" returns the context with
\* request.metadata = {...metadata, userId: 'u1'}, "mark" returns it as is.
handled(handler, metadata) ==
    IF handler = "login"
    THEN [given |-> TRUE, userId |-> "'u1'", authenticated |-> metadata.authenticated]
    ELSE metadata

AuthInit ==
    auth \in [metadata : Metadatas, plan : GatedPlans, i : {1}, log : {<<>>}]

\* executeSingleStep of the next step of the plan: the handler is called when
\* shouldExecute is absent or truthy, else the context is returned as it is.
GatedStep ==
    /\ auth.i <= Len(auth.plan)
    /\ LET step == auth.plan[auth.i]
           run == shouldExecute(step.gate, auth.metadata)
       IN  auth' = [auth EXCEPT
                      !.i = @ + 1,
                      !.metadata = IF run THEN handled(step.handler, @) ELSE @,
                      !.log = Append(@, [gate |-> step.gate, before |-> auth.metadata,
                                         result |-> isAuthenticated(auth.metadata),
                                         ran |-> run])]
    /\ UNCHANGED <<execVars, cacheVars, intentVars, optVars, dynVars, rateVars, modVars,
                   condVars, instVars, parseVars, planVars>>

NextAuth == GatedStep

(***************************************************************************)
(* The Orchestrator class (src/src/core/types.ts, lines 286-330).  Step    *)
(* objects and arrays are heap objects: objs[id] is a step object,         *)
(* arrays[a] an array of plan entries that hold step object ids, and       *)
(* orc.steps the array this.steps refers to.  An execution iterates the    *)
(* array it was given; its handlers return their input.                    *)
(***************************************************************************)
MaxOps == 2

MaxExecs == 2

StepNames == {"S1", "S2", "S3"}

\* The plans an Orchestrator is constructed with, as entries of names.
InitialPlans ==
    { <<<<"S1">>>>, <<<<"S1">>, <<"S2">>>>, <<<<"S1", "S2">>>>,
      <<<<"S1">>, <<"S2", "S3">>>>, <<<<"S1", "S2">>, <<"S1">>>> }

\* The arguments of addHandler: a step, or a group of steps.
AddedEntries == {<<n>> : n \in StepNames} \cup {<<"S2", "S3">>}

RECURSIVE Flat(_)
Flat(entries) == IF entries = <<>> THEN <<>> ELSE Head(entries) \o Flat(Tail(entries))

\* The entries of a plan of names, their step objects numbered from first on.
RECURSIVE Allocate(_, _)
Allocate(plan, first) ==
    IF plan = <<>> THEN <<>>
    ELSE <<[k \in 1..Len(Head(plan)) |-> first + k - 1]>>
         \o Allocate(Tail(plan), first + Len(Head(plan)))

newObjects(names) == [k \in 1..Len(names) |-> [name |-> names[k], enabled |-> TRUE]]

thisSteps == orc.arrays[orc.steps]

\* The plan as getSteps() shows it: entries of [name, enabled].
planOf(o) == [e \in 1..Len(o.arrays[o.steps]) |->
                [k \in 1..Len(o.arrays[o.steps][e]) |-> o.objs[o.arrays[o.steps][e][k]]]]

PlanInit ==
    orc \in {[objs |-> newObjects(Flat(p)),
              arrays |-> <<Allocate(p, 1)>>,
              steps |-> 1,
              execs |-> <<>>,
              ops |-> 0,
              last |-> [op |-> "new", name |-> "", entry |-> <<>>]] : p \in InitialPlans}

\* addHandler(step): this.steps.push(step)
AddHandler ==
    /\ orc.ops < MaxOps
    /\ \E names \in AddedEntries :
         orc' = [orc EXCEPT
                   !.objs = @ \o newObjects(names),
                   !.arrays[orc.steps] = @ \o Allocate(<<names>>, Len(orc.objs) + 1),
                   !.ops = @ + 1,
                   !.last = [op |-> "addHandler", name |-> "", entry |-> names]]
    /\ UNCHANGED <<execVars, cacheVars, intentVars, optVars, dynVars, rateVars, modVars,
                   condVars, instVars, parseVars, authVars>>

\* The members of an entry that are not named name.
others(entry, objs, name) == SelectSeq(entry, LAMBDA id : objs[id].name # name)

\* this.steps.filter(s => Array.isArray(s) ? !s.some(step => step.name === name)
\*                                          : s.name !== name)
RECURSIVE removed(_, _, _)
removed(entries, objs, name) ==
    IF entries = <<>> THEN <<>>
    ELSE (IF others(Head(entries), objs, name) = Head(entries) THEN <<Head(entries)>>
          ELSE <<>>)
         \o removed(Tail(entries), objs, name)

\* removeHandler(name): this.steps becomes a new array.
RemoveHandler ==
    /\ orc.ops < MaxOps
    /\ \E name \in StepNames :
         orc' = [orc EXCEPT
                   !.arrays = Append(@, removed(thisSteps, orc.objs, name)),
                   !.steps = Len(orc.arrays) + 1,
                   !.ops = @ + 1,
                   !.last = [op |-> "removeHandler", name |-> name, entry |-> <<>>]]
    /\ UNCHANGED <<execVars, cacheVars, intentVars, optVars, dynVars, rateVars, modVars,
                   condVars, instVars, parseVars, authVars>>

\* The first step object named name, looking at the entries in order and at
\* one member per group; 0 when there is none.
found(entries, objs, name) ==
    LET hits == {e \in 1..Len(entries) : \E k \in 1..Len(entries[e]) : objs[entries[e][k]].name = name}
    IN  IF hits = {} THEN 0
        ELSE LET e == CHOOSE x \in hits : \A y \in hits : x <= y
                 ks == {k \in 1..Len(entries[e]) : objs[entries[e][k]].name = name}
             IN  entries[e][CHOOSE k \in ks : \A j \in ks : k <= j]

\* toggleStep(name, enabled): sets enabled on the first step of that name.
ToggleStep ==
    /\ orc.ops < MaxOps
    /\ \E name \in StepNames, enabled \in BOOLEAN :
         LET id == found(thisSteps, orc.objs, name)
         IN  orc' = [orc EXCEPT
                       !.objs = IF id = 0 THEN @ ELSE [@ EXCEPT ![id].enabled = enabled],
                       !.ops = @ + 1,
                       !.last = [op |-> "toggleStep", name |-> name, entry |-> <<>>]]
    /\ UNCHANGED <<execVars, cacheVars, intentVars, optVars, dynVars, rateVars, modVars,
                   condVars, instVars, parseVars, authVars>>

\* The names of the steps of an entry whose handler executeSingleStep calls.
invokedOf(entry, objs) ==
    LET on == SelectSeq(entry, LAMBDA id : objs[id].enabled)
    IN  [k \in 1..Len(on) |-> objs[on[k]].name]

\* The loop of executeOrchestration from position i of an array, up to the
\* await of the next entry with a handler to call or to the end of the array.
RECURSIVE advance(_, _, _)
advance(entries, objs, i) ==
    IF i > Len(entries) THEN [i |-> i, called |-> <<>>, done |-> TRUE]
    ELSE IF invokedOf(entries[i], objs) = <<>>
         THEN advance(entries, objs, i + 1)
         ELSE [i |-> i + 1, called |-> invokedOf(entries[i], objs), done |-> FALSE]

\* execute(context): executeOrchestration(context, this.steps, this.config),
\* up to its first await.
ExecuteCall ==
    /\ Len(orc.execs) < MaxExecs
    /\ LET a == advance(thisSteps, orc.objs, 1)
       IN  orc' = [orc EXCEPT
                     !.execs = Append(@, [array |-> orc.steps, i |-> a.i, done |-> a.done,
                                          atCall |-> planOf(orc),
                                          context |-> a.called]),
                     !.last = [op |-> "execute", name |-> "", entry |-> <<>>]]
    /\ UNCHANGED <<execVars, cacheVars, intentVars, optVars, dynVars, rateVars, modVars,
                   condVars, instVars, parseVars, authVars>>

\* The handlers an execution awaits settle; the loop goes on to the next
\* entry of its array.
ExecuteResume ==
    /\ \E x \in 1..Len(orc.execs) :
         /\ ~orc.execs[x].done
         /\ LET a == advance(orc.arrays[orc.execs[x].array], orc.objs, orc.execs[x].i)
            IN  orc' = [orc EXCEPT
                          !.execs[x].i = a.i,
                          !.execs[x].done = a.done,
                          !.execs[x].context = @ \o a.called,
                          !.last = [op |-> "resume", name |-> "", entry |-> <<>>]]
    /\ UNCHANGED <<execVars, cacheVars, intentVars, optVars, dynVars, rateVars, modVars,
                   condVars, instVars, parseVars, authVars>>

NextPlan == AddHandler \/ RemoveHandler \/ ToggleStep \/ ExecuteCall \/ ExecuteResume

(***************************************************************************)
(* Parked subsystems.                                                      *)
(***************************************************************************)
DynParked ==
    /\ dcfg = <<>>
    /\ dyn = <<>>
    /\ loadArgs = <<>>

OptParked ==
    /\ optIn = <<>>
    /\ optOut = <<>>

RateParked ==
    /\ rcfg = <<>>
    /\ rl = <<>>

ModParked ==
    /\ mcfg = <<>>
    /\ mod = <<>>

CondParked == cnd = <<>>

InstParked == inst = <<>>

ParseParked == prs = <<>>

AuthParked == auth = <<>>

PlanParked == orc = <<>>

MoreParked == CondParked /\ InstParked /\ ParseParked /\ AuthParked /\ PlanParked

GatesParked == RateParked /\ ModParked /\ MoreParked

StagesParked == OptParked /\ DynParked /\ GatesParked

CacheParked ==
    /\ now = 0
    /\ cache = <<>>
    /\ pendingLoads = <<>>
    /\ loads = <<>>
    /\ callers = <<>>

IntentParked ==
    /\ ipc = "parked"
    /\ icfg = <<>>
    /\ kwResult = <<>>
    /\ llmCalls = 0
    /\ fallbackLog = <<>>
    /\ intentOut = <<>>
    /\ llmResult = <<>>
    /\ intentReturn = <<>>

Init == ExecInit /\ CacheParked /\ IntentParked /\ StagesParked

Spec == Init /\ [][Next]_vars

SpecCancel == Init /\ [][NextCancel]_vars

\* The executor when every predicate and every handler that was called
\* completes, and the event loop runs every continuation that is ready.
Completion ==
    /\ WF_vars(Execute)
    /\ WF_vars(Resume)
    /\ \A s \in StageIds : WF_vars(PredResolve(s))
    /\ \A s \in StageIds : WF_vars(HandlerReturn(s) \/ HandlerThrow(s))

SpecLive == Init /\ [][Next]_vars /\ Completion

\* The cache under concurrent getOrLoad calls and a running clock.
InitCache == ExecParked /\ CacheInit /\ IntentParked /\ StagesParked

SpecCache == InitCache /\ [][NextCache]_vars

\* The same cache with invalidate() and clear() interleaved.
InitCacheInvalidate == ExecParked /\ CacheInit /\ IntentParked /\ StagesParked

SpecCacheInvalidate == InitCacheInvalidate /\ [][NextCacheInvalidate]_vars

\* The hybrid intent stage handling one request.
InitIntent == ExecParked /\ CacheParked /\ IntentInit /\ StagesParked

SpecIntent == InitIntent /\ [][NextIntent]_vars

\* One build() of a context optimizer.
InitOptimizer ==
    ExecParked /\ CacheParked /\ IntentParked /\ OptInit /\ DynParked /\ GatesParked

SpecOptimizer == InitOptimizer /\ [][NextOptimizer]_vars

\* Concurrent calls of one dynamic context handler.
InitDynamic ==
    ExecParked /\ CacheInit /\ IntentParked /\ OptParked /\ DynInit /\ GatesParked

SpecDynamic == InitDynamic /\ [][NextDynamic]_vars

\* The same calls with a BasicPrismaContextLoader, inside the TTL.
InitDynamicPrisma ==
    ExecParked /\ CacheInit /\ IntentParked /\ OptParked /\ DynInitPrisma /\ GatesParked

SpecDynamicPrisma == InitDynamicPrisma /\ [][NextDynamicInTtl]_vars

\* One request through a plan whose first step is the rate-limit handler.
InitRateLimit ==
    /\ ExecParked /\ CacheParked /\ IntentParked /\ OptParked /\ DynParked
    /\ RateInit /\ ModParked /\ MoreParked

SpecRateLimit == InitRateLimit /\ [][NextRateLimit]_vars

\* One request through the moderation handler.
InitModeration ==
    /\ ExecParked /\ CacheParked /\ IntentParked /\ OptParked /\ DynParked
    /\ RateParked /\ ModInit /\ MoreParked

SpecModeration == InitModeration /\ [][NextModeration]_vars

\* Condition combinators called with one state.
InitConditions ==
    /\ ExecParked /\ CacheParked /\ IntentParked /\ OptParked /\ DynParked
    /\ RateParked /\ ModParked /\ CondInit /\ InstParked /\ ParseParked /\ AuthParked /\ PlanParked

SpecConditions == InitConditions /\ [][NextConditions]_vars

\* Repeated build() calls on one ContextOptimizer.
InitInstance ==
    /\ ExecParked /\ CacheParked /\ IntentParked /\ OptParked /\ DynParked
    /\ RateParked /\ ModParked /\ CondParked /\ InstInit /\ ParseParked /\ AuthParked /\ PlanParked

SpecInstance == InitInstance /\ [][NextInstance]_vars

\* One response text through parseResponse.
InitParse ==
    /\ ExecParked /\ CacheParked /\ IntentParked /\ OptParked /\ DynParked
    /\ RateParked /\ ModParked /\ CondParked /\ InstParked /\ ParseInit /\ AuthParked /\ PlanParked

SpecParse == InitParse /\ [][NextParse]_vars

\* Plans of steps gated by isAuthenticated.
InitAuth ==
    /\ ExecParked /\ CacheParked /\ IntentParked /\ OptParked /\ DynParked
    /\ RateParked /\ ModParked /\ CondParked /\ InstParked /\ ParseParked /\ AuthInit /\ PlanParked

SpecAuth == InitAuth /\ [][NextAuth]_vars

\* One Orchestrator: plan management and executions interleaved.
InitPlan ==
    /\ ExecParked /\ CacheParked /\ IntentParked /\ OptParked /\ DynParked
    /\ RateParked /\ ModParked /\ CondParked /\ InstParked /\ ParseParked /\ AuthParked
    /\ PlanInit

SpecPlan == InitPlan /\ [][NextPlan]_vars

(***************************************************************************)
(* Vocabulary of the executor's properties.                                *)
(***************************************************************************)
\* The stage's handler returned a context that carries a failure descriptor.
ReturnedFailure(t) ==
    /\ status[t] = "fulfilled"
    /\ invoked[t] > 0
    /\ stepResult[t].error.statusCode # 0

\* The stage's handler (or its predicate) threw.
Threw(t) == status[t] = "rejected" /\ fault[t] # CallbackFault

StageFailed(t) == ReturnedFailure(t) \/ Threw(t)

\* The stage is enabled and its predicate is absent or true.
GatedIn(s) ==
    /\ StageRec(s).enabled
    /\ (~StageRec(s).hasPred \/ predValue[s] = "true")

\* The stage was skipped: its executeSingleStep call resolved without the handler.
Skipped(s) == status[s] = "fulfilled" /\ invoked[s] = 0

\* The positions of a group whose result carries a failure descriptor.
FailingIn(entry) ==
    {i \in 1..Len(entry.stages) :
        /\ status[entry.stages[i].id] = "fulfilled"
        /\ stepResult[entry.stages[i].id].error.statusCode # 0}

\* The executor returns in this step.
Returns == pc = "await" /\ pc' = "done"

\* The executor leaves the awaited plan-entry in this step.
LeavesEntry == pc = "await" /\ (pc' = "done" \/ idx' # idx)

(***************************************************************************)
(* C1. Plan-entries are processed in strict declaration order: no stage of *)
(* a later entry is started before every stage of every earlier entry has  *)
(* completed without failure; once a stage has returned a failure          *)
(* descriptor or thrown, no handler of a later entry is ever invoked, and  *)
(* the result has success = false.                                         *)
(***************************************************************************)
C1_InOrderAndStopOnFailure ==
    /\ \A s \in PlanIds, t \in PlanIds :
          EntryOf(t) < EntryOf(s) =>
             /\ (status[s] # "idle" =>
                    status[t] = "fulfilled" /\ stepResult[t].error.statusCode = 0)
             /\ (StageFailed(t) => invoked[s] = 0 /\ predCalls[s] = 0)
    /\ (pc = "done" /\ (\E t \in PlanIds : StageFailed(t))) => result.success = FALSE

\* A stage failed, the executor returned, and a later, enabled, ungated stage
\* exists that was not invoked.
C1_Witness ==
    /\ pc = "done"
    /\ \E s \in PlanIds, t \in PlanIds :
          /\ EntryOf(t) < EntryOf(s)
          /\ StageFailed(t)
          /\ StageRec(s).enabled /\ ~StageRec(s).hasPred
          /\ invoked[s] = 0

(***************************************************************************)
(* C2. executeOrchestration returns success = false if and only if at      *)
(* least one stage returned a failure descriptor or threw; and when it     *)
(* returns success = true every enabled, gated-in stage was invoked        *)
(* exactly once.                                                           *)
(***************************************************************************)
C2_Body ==
    /\ (result.success = FALSE <=> \E t \in PlanIds : StageFailed(t))
    /\ (result.success => \A s \in PlanIds : GatedIn(s) => invoked[s] = 1)

C2_FailsIffStageFailed == pc = "done" => C2_Body

\* Auxiliary: the same statement for the executions in which no callback throws.
C2_NoCallbackFault == (pc = "done" /\ ~callbackThrew) => C2_Body

(***************************************************************************)
(* C3. When a parallel group completes without failure, the context after  *)
(* the group holds, for every extension key, the value of the last stage   *)
(* in declaration order whose result carries the key, and the group        *)
(* input's value when no result carries it; every stage of the group got   *)
(* the group's input context.                                              *)
(***************************************************************************)
\* The positions of the group whose result carries key k.
Carriers(entry, k) ==
    {i \in 1..Len(entry.stages) : stepResult[entry.stages[i].id].ext[k] # Undefined}

LastCarrier(entry, k) ==
    CHOOSE i \in Carriers(entry, k) : \A j \in Carriers(entry, k) : j <= i

FoldedExt(entry, input) ==
    [k \in Keys |->
        IF Carriers(entry, k) = {} THEN input.ext[k]
        ELSE stepResult[entry.stages[LastCarrier(entry, k)].id].ext[k]]

GroupSucceeds ==
    /\ LeavesEntry
    /\ steps[idx].par
    /\ (pc' = "await" \/ result'.success)

C3_GroupMergeIsFold ==
    [][GroupSucceeds =>
          /\ currentContext'.ext = FoldedExt(steps[idx], currentContext)
          /\ \A s \in IdsOf(steps[idx]) : stepInput[s] = currentContext]_vars

\* A group has completed in which two stages wrote the same key; the later
\* stage's value is in the context handed to the next plan-entry.
C3_Witness ==
    /\ pc = "await"
    /\ idx > 1
    /\ steps[idx - 1].par
    /\ \E a \in IdsOf(steps[idx - 1]), b \in IdsOf(steps[idx - 1]) :
          /\ a < b
          /\ stepResult[a].ext["k1"] = Name(a)
          /\ stepResult[b].ext["k1"] = Name(b)
          /\ currentContext.ext["k1"] = Name(b)

(***************************************************************************)
(* C4. In a parallel group where one or more stages return a failure       *)
(* descriptor, the executor returns success = false with the failure of    *)
(* the first such stage in declaration order, its step set to that stage's *)
(* name when the descriptor carries none, and a context without any        *)
(* extension written by another stage of the group.                        *)
(***************************************************************************)
FirstFailing(entry) ==
    CHOOSE i \in FailingIn(entry) : \A j \in FailingIn(entry) : i <= j

C4_Body ==
    LET entry == steps[idx]
        id == entry.stages[FirstFailing(entry)].id
        r == stepResult[id]
    IN  /\ result'.success = FALSE
        /\ result'.error =
              [r.error EXCEPT !.step = IF @ = Undefined THEN Name(id) ELSE @]
        /\ result'.context.ext = r.ext

C4_GroupFirstFailureWins ==
    [][(Returns /\ steps[idx].par /\ FailingIn(steps[idx]) # {}) => C4_Body]_vars

\* Auxiliary: the same statement for the groups in which Promise.all fulfils
\* (no stage of the group throws) and no callback throws.
C4_NoThrow ==
    [][(Returns /\ steps[idx].par /\ FailingIn(steps[idx]) # {}
          /\ rejectedFirst = 0 /\ ~callbackThrew') => C4_Body]_vars

(***************************************************************************)
(* C5. When a handler throws, the executor returns success = false with a  *)
(* failure of statusCode 500, the fixed generic message, step = the stage  *)
(* name (the group's names joined by ", " for a parallel group) and        *)
(* details = the raw fault text if includeErrorDetails, absent otherwise.  *)
(***************************************************************************)
HandlerThrewFirst ==
    /\ rejectedFirst # 0
    /\ fault[rejectedFirst] = HandlerFault(rejectedFirst)

C5_Body ==
    /\ result'.success = FALSE
    /\ result'.error.statusCode = 500
    /\ result'.error.message =
          "An error occurred while processing your request. Please try again."
    /\ result'.error.step = StepNameOf(steps[idx])
    /\ result'.error.details =
          (IF config.includeErrorDetails THEN fault[rejectedFirst] ELSE Undefined)

C5_ThrownBecomes500 == [][(Returns /\ HandlerThrewFirst) => C5_Body]_vars

\* Auxiliary: the same statement for the executions in which no callback throws.
C5_NoCallbackFault ==
    [][(Returns /\ HandlerThrewFirst /\ ~callbackThrew') => C5_Body]_vars

(***************************************************************************)
(* C6. Once the caller's cancellation token has fired, the executor starts *)
(* no further plan-entry and returns a failure with statusCode 499 and     *)
(* step "cancelled".                                                       *)
(***************************************************************************)
C6_CancellationStops ==
    [][(cancelFired /\ LeavesEntry) =>
          /\ pc' = "done"
          /\ result'.success = FALSE
          /\ result'.error.statusCode = 499
          /\ result'.error.step = "cancelled"]_vars

(***************************************************************************)
(* C7. A disabled stage is never invoked and its predicate is never        *)
(* called; an enabled stage whose predicate settles to false is never      *)
(* invoked; a skipped stage resolves to the context it was given; an       *)
(* entry all of whose stages are skipped hands the context on unchanged    *)
(* and the execution goes on (next entry, or success at the plan's end).   *)
(***************************************************************************)
C7_SkipState ==
    \A s \in PlanIds :
       /\ (StageRec(s).enabled = FALSE => invoked'[s] = 0 /\ predCalls'[s] = 0)
       /\ (predValue'[s] = "false" => invoked'[s] = 0)
       /\ ((StageRec(s).enabled = FALSE \/ predValue'[s] = "false")
              /\ status'[s] # "idle"
           => status'[s] = "fulfilled" /\ stepResult'[s] = stepInput'[s])

C7_SkipStep ==
    (LeavesEntry /\ \A s \in IdsOf(steps[idx]) : Skipped(s)) =>
        /\ currentContext' = currentContext
        /\ \/ pc' = "await" /\ idx' = idx + 1
           \/ /\ idx = Len(steps)
              /\ pc' = "done"
              /\ result'.success
              /\ result'.context = currentContext

C7_SkippedNeverRun == [][C7_SkipState /\ C7_SkipStep]_vars

\* An execution has succeeded whose plan holds a disabled single stage with
\* a predicate and a stage of a parallel group whose predicate was false.
C7_Witness ==
    /\ pc = "done"
    /\ result.success
    /\ \E s \in PlanIds, t \in PlanIds :
          /\ StageRec(s).enabled = FALSE /\ StageRec(s).hasPred
          /\ ~steps[EntryOf(s)].par
          /\ steps[EntryOf(t)].par
          /\ StageRec(t).enabled /\ predValue[t] = "false"

(***************************************************************************)
(* Vocabulary of the cache claims.                                         *)
(***************************************************************************)
\* Caller c makes its getOrLoad call in this step.
Calls(c) == callers[c].pc = "idle" /\ callers'[c].pc # "idle"

\* Caller c's call settles in this step, having waited for a load.
Settles(c) ==
    /\ callers[c].pc \in {"owner", "joined"}
    /\ callers'[c].pc \in {"returned", "threw"}

\* The calls on key k that invoked the loader and have not completed.
InFlight(k) == {o \in CallerIds : callers[o].pc = "owner" /\ callers[o].key = k}

Unexpired(k) == cache[k].present /\ cache[k].expiresAt > now

(***************************************************************************)
(* C8. Single-flight: a getOrLoad call on a key with no unexpired entry    *)
(* invokes the loader only if no call on that key is in flight, and        *)
(* otherwise waits for the load in flight; so at most one load per key is  *)
(* in flight, every call that waited for a load gets that load's value,    *)
(* and a failed load writes no entry and fails every call that waited.     *)
(***************************************************************************)
C8_CallStep ==
    \A c \in CallerIds :
       (Calls(c) /\ ~Unexpired(callers'[c].key)) =>
          LET k == callers'[c].key
          IN  IF InFlight(k) # {}
              THEN /\ loads' = loads
                   /\ callers'[c].pc = "joined"
                   /\ \E o \in InFlight(k) : callers'[c].load = callers[o].load
              ELSE /\ Len(loads') = Len(loads) + 1
                   /\ loads'[Len(loads')].key = k
                   /\ callers'[c].load = Len(loads')

C8_SettleStep ==
    \A c \in CallerIds :
       Settles(c) =>
          LET l == callers[c].load
          IN  IF loads[l].state = "fulfilled"
              THEN callers'[c].pc = "returned" /\ callers'[c].value = l
              ELSE /\ loads[l].state = "rejected"
                   /\ callers'[c].pc = "threw"
                   /\ cache' = cache

C8_State ==
    /\ \A k \in CacheKeys : Cardinality(InFlight(k)) <= 1
    /\ \A c \in CallerIds, d \in CallerIds :
          (callers[c].load # 0 /\ callers[c].load = callers[d].load) =>
             /\ callers[c].key = callers[d].key
             /\ (callers[c].pc = "returned" /\ callers[d].pc \in {"returned", "threw"})
                   => (callers[d].pc = "returned" /\ callers[d].value = callers[c].value)
    /\ \A k \in CacheKeys :
          cache[k].present =>
             /\ cache[k].value \in 1..Len(loads)
             /\ loads[cache[k].value].key = k
             /\ loads[cache[k].value].state = "fulfilled"

C8_SingleFlight == [][C8_CallStep /\ C8_SettleStep /\ C8_State']_vars

\* Every call was made on one key while nothing was cached, the loader ran
\* once and failed, every caller has seen the failure, nothing is cached.
C8_Witness ==
    /\ Len(loads) = 1
    /\ loads[1].state = "rejected"
    /\ \A c \in CallerIds : callers[c].pc = "threw" /\ callers[c].load = 1
    /\ \A k \in CacheKeys : ~cache[k].present

\* Auxiliary: the same for a load that succeeds.
C8_WitnessSuccess ==
    /\ Len(loads) = 1
    /\ \A c \in CallerIds :
          callers[c].pc = "returned" /\ callers[c].load = 1 /\ callers[c].value = 1
    /\ cache[loads[1].key].present

(***************************************************************************)
(* C9. A getOrLoad call returns the stored value without invoking the      *)
(* loader exactly when the key has an entry with expiresAt > now; a call   *)
(* on an expired entry with no load in flight invokes the loader; a load   *)
(* that succeeds overwrites the entry with the loaded value and            *)
(* expiresAt = (the instant it completes) + ttl.                           *)
(***************************************************************************)
C9_CallStep ==
    \A c \in CallerIds :
       Calls(c) =>
          LET k == callers'[c].key
          IN  /\ (cache[k].present /\ cache[k].expiresAt > now)
                    <=> callers'[c].pc = "returned"
              /\ callers'[c].pc = "returned" =>
                    /\ callers'[c].value = cache[k].value
                    /\ loads' = loads
                    /\ cache' = cache
              /\ (cache[k].present /\ cache[k].expiresAt <= now /\ InFlight(k) = {}) =>
                    /\ Len(loads') = Len(loads) + 1
                    /\ loads'[Len(loads')].key = k
                    /\ callers'[c].pc = "owner"

C9_CompleteStep ==
    \A c \in CallerIds :
       (callers[c].pc = "owner" /\ callers'[c].pc = "returned") =>
          cache'[callers[c].key] =
             [present |-> TRUE, value |-> callers[c].load, expiresAt |-> now + Ttl]

C9_ExpiryAndReload == [][C9_CallStep /\ C9_CompleteStep]_vars

\* A key was loaded, served from the cache, and loaded again once the entry
\* had expired: the entry holds the second load's value and a later expiry.
C9_Witness ==
    \E k \in CacheKeys :
       /\ Len(loads) = 2
       /\ loads[1].key = k /\ loads[2].key = k
       /\ cache[k].present /\ cache[k].value = 2
       /\ cache[k].expiresAt >= 2 * Ttl
       /\ \E c \in CallerIds :
             callers[c].pc = "returned" /\ callers[c].load = 0 /\ callers[c].value = 1

(***************************************************************************)
(* C10. The intent stage calls the LLM classifier iff the keyword          *)
(* confidence is strictly below the threshold (0.5 when none is given),    *)
(* the fallback is enabled and an LLM classifier is configured; in every   *)
(* other case it returns the keyword result, with method "keyword", and    *)
(* does not call the LLM classifier.                                       *)
(***************************************************************************)
C10_Threshold ==
    IF icfg.llmFallback.defined /\ icfg.llmFallback.confidenceThreshold.defined
    THEN icfg.llmFallback.confidenceThreshold
    ELSE [defined |-> FALSE, n |-> 1, d |-> 2]

C10_LowConfidence ==
    kwResult.confidence.n * C10_Threshold.d < C10_Threshold.n * kwResult.confidence.d

C10_FallsBack ==
    /\ C10_LowConfidence
    /\ icfg.llmFallback.defined /\ icfg.llmFallback.enabled
    /\ icfg.llmFallback.hasClassifier

C10_HybridFallbackPolicy ==
    (ipc \in {"llm", "done"} /\ icfg.role = "user") =>
       /\ llmCalls = (IF C10_FallsBack THEN 1 ELSE 0)
       /\ ~C10_FallsBack =>
             /\ ipc = "done"
             /\ intentOut.intent = kwResult.intent
             /\ intentOut.confidence = kwResult.confidence
             /\ intentOut.matchedKeywords = kwResult.matchedKeywords
             /\ intentOut.method = "keyword"

\* Auxiliary: when the LLM classifier is called.
C10_LlmCalledIff ==
    (ipc \in {"llm", "done"} /\ icfg.role = "user") =>
       llmCalls = (IF C10_FallsBack THEN 1 ELSE 0)

\* Auxiliary: what is returned when the keyword result suffices or the
\* fallback is off: the classifier's result, which carries no method.
C10_KeywordResultReturned ==
    (/\ ipc = "done" /\ icfg.role = "user"
     /\ ~(C10_LowConfidence /\ icfg.llmFallback.defined /\ icfg.llmFallback.enabled)) =>
       /\ intentOut = kwResult
       /\ intentOut.method = Undefined
       /\ llmCalls = 0

\* Auxiliary: the keyword confidence equals the default threshold and the
\* enabled, configured fallback was not used.
C10_AtThreshold ==
    /\ ipc = "done" /\ icfg.role = "user"
    /\ icfg.llmFallback.defined /\ icfg.llmFallback.enabled
    /\ icfg.llmFallback.hasClassifier
    /\ ~icfg.llmFallback.confidenceThreshold.defined
    /\ kwResult.confidence = [n |-> 1, d |-> 2]
    /\ llmCalls = 0

(***************************************************************************)
(* C11. When the intent stage falls back to the LLM and the LLM returns an *)
(* intent, the result has that intent and confidence, method "llm", and    *)
(* the tone / deepLink / requiresAuth configured for the LLM's intent      *)
(* (absent when nothing is configured for it).                             *)
(***************************************************************************)
C11_LlmReturned == ipc = "done" /\ llmCalls = 1 /\ llmResult.intent # Undefined

C11_LlmResultWithItsMetadata ==
    C11_LlmReturned =>
       /\ intentOut.intent = llmResult.intent
       /\ intentOut.confidence = llmResult.confidence
       /\ intentOut.method = "llm"
       /\ intentOut.metadata.tone =
             (IF icfg.hasMetadata THEN tones[llmResult.intent] ELSE Undefined)
       /\ intentOut.metadata.deepLink =
             (IF icfg.hasMetadata THEN deepLinks[llmResult.intent] ELSE Undefined)
       /\ intentOut.metadata.requiresAuth =
             (icfg.hasMetadata /\ llmResult.intent \in requiresAuth)

\* Auxiliary: what the LLM path does write when onFallback does not throw:
\* the LLM's intent, confidence and reasoning, no method, and the metadata
\* of the keyword tier's intent.
C11_KeywordMetadataCarried ==
    (C11_LlmReturned /\ \A i \in 1..Len(fallbackLog) : fallbackLog[i].outcome # "throws") =>
       /\ intentOut.intent = llmResult.intent
       /\ intentOut.confidence = llmResult.confidence
       /\ intentOut.method = Undefined
       /\ intentOut.metadata.classificationMethod = "llm"
       /\ intentOut.metadata.reasoning = llmResult.reasoning
       /\ intentOut.metadata.tone = kwResult.metadata.tone
       /\ intentOut.metadata.deepLink = kwResult.metadata.deepLink
       /\ intentOut.metadata.requiresAuth = kwResult.metadata.requiresAuth

(***************************************************************************)
(* C12. The intent stage never rejects and never returns a context with a  *)
(* failure descriptor; when the LLM classifier throws or rejects, it       *)
(* resolves with intent "general" and confidence 0 under the output key.   *)
(***************************************************************************)
C12_LlmFailed == ipc = "done" /\ llmCalls = 1 /\ llmResult.intent = Undefined

C12_LlmFailureIsDefault ==
    /\ intentReturn.kind # "rejected"
    /\ intentReturn.error.statusCode = 0
    /\ ipc = "done" => intentReturn.kind = "resolved"
    /\ C12_LlmFailed =>
          /\ intentOut.intent = "general"
          /\ intentOut.confidence = [n |-> 0, d |-> 1]

\* The LLM classifier has failed on a message for which the keyword tier had
\* found an intent, and the handler has resolved.
C12_Witness ==
    /\ C12_LlmFailed
    /\ kwResult.intent \notin {"general", Undefined}
    /\ intentReturn.kind = "resolved"
    /\ intentOut.intent = "general"

(***************************************************************************)
(* C13. The keyword classifier scores a category by the sum of the word    *)
(* counts of its keywords that are substrings of the lower-cased message;  *)
(* it returns a highest-scoring category, confidence                       *)
(* min(1, (best - second) / max(best, 1)) in [0,1] (0 on a tie, 1 for a    *)
(* sole matching category) and the matching keywords of that category;     *)
(* with no match it returns "general", confidence 0, no matched keywords.  *)
(***************************************************************************)
C13_Lower == [i \in 1..Len(icfg.message) |->
                IF icfg.message[i] = "A" THEN "a" ELSE icfg.message[i]]

C13_Occurs(kw) ==
    \E i \in 1..Len(C13_Lower), j \in 1..Len(C13_Lower) :
       j >= i /\ SubSeq(C13_Lower, i, j) = kw

C13_Words(kw) == Cardinality({i \in 1..Len(kw) : kw[i] = " "}) + 1

RECURSIVE C13_Sum(_, _)
C13_Sum(kws, n) ==
    IF n = 0 THEN 0
    ELSE C13_Sum(kws, n - 1) + (IF C13_Occurs(kws[n]) THEN C13_Words(kws[n]) ELSE 0)

C13_Score(i) == C13_Sum(icfg.patterns[i].keywords, Len(icfg.patterns[i].keywords))

C13_Cats == 1..Len(icfg.patterns)

C13_Best == CHOOSE b \in 0..(4 * MaxMsgLen) :
               /\ \A i \in C13_Cats : C13_Score(i) <= b
               /\ (b = 0 \/ \E i \in C13_Cats : C13_Score(i) = b)

C13_Second(w) == CHOOSE b \in 0..(4 * MaxMsgLen) :
                    /\ \A i \in C13_Cats \ {w} : C13_Score(i) <= b
                    /\ (b = 0 \/ \E i \in C13_Cats \ {w} : C13_Score(i) = b)

C13_KeywordScoring ==
    (ipc # "start" /\ icfg.role = "user") =>
       IF C13_Best = 0
       THEN /\ kwResult.intent = "general"
            /\ kwResult.confidence = [n |-> 0, d |-> 1]
            /\ kwResult.matchedKeywords.items = <<>>
       ELSE \E w \in C13_Cats :
               /\ kwResult.intent = icfg.patterns[w].category
               /\ C13_Score(w) = C13_Best
               /\ kwResult.confidence.n * C13_Best =
                     (C13_Best - C13_Second(w)) * kwResult.confidence.d
               /\ kwResult.confidence.n >= 0
               /\ kwResult.confidence.n <= kwResult.confidence.d
               /\ (C13_Second(w) = C13_Best => kwResult.confidence.n = 0)
               /\ (C13_Second(w) = 0 => kwResult.confidence.n = kwResult.confidence.d)
               /\ \A k \in 1..Len(kwResult.matchedKeywords.items) :
                     /\ C13_Occurs(kwResult.matchedKeywords.items[k])
                     /\ \E q \in 1..Len(icfg.patterns[w].keywords) :
                           icfg.patterns[w].keywords[q] = kwResult.matchedKeywords.items[k]
               /\ \A q \in 1..Len(icfg.patterns[w].keywords) :
                     C13_Occurs(icfg.patterns[w].keywords[q]) =>
                        \E k \in 1..Len(kwResult.matchedKeywords.items) :
                           icfg.patterns[w].keywords[q] = kwResult.matchedKeywords.items[k]

\* A message with an upper-case letter matched a two-word keyword of one
\* category and a one-word keyword of another: confidence (2 - 1) / 2.
C13_Witness ==
    /\ ipc # "start" /\ icfg.role = "user"
    /\ icfg.message = <<"A", " ", "b">>
    /\ kwResult.intent = "greeting"
    /\ kwResult.confidence = [n |-> 1, d |-> 2]
    /\ kwResult.matchedKeywords.items = << <<"a", " ", "b">> >>

\* Auxiliary: a tie for the best score gives confidence 0 and the category
\* configured first.
C13_WitnessTie ==
    /\ ipc # "start" /\ icfg.role = "user"
    /\ icfg.message = <<"a", "b">>
    /\ Len(icfg.patterns) = 3
    /\ kwResult.intent = "greeting"
    /\ kwResult.confidence = [n |-> 0, d |-> 1]

(***************************************************************************)
(* Vocabulary of the optimizer claims: what is expected of a build, stated *)
(* on the positions 1..n of the catalog.                                   *)
(***************************************************************************)
OptCatalog == optIn.config.sections

\* The build is to use the full catalog.
OptFull ==
    \/ optIn.isFirstMessage /\ optIn.config.strategy.firstMessage # "selective"
    \/ ~optIn.isFirstMessage /\ optIn.config.strategy.followUp = "full"

\* The positions of the sections that are alwaysInclude or share a topic.
OptMatching ==
    {i \in 1..Len(OptCatalog) :
        \/ OptCatalog[i].alwaysInclude
        \/ \E t \in optIn.topics : t \in OptCatalog[i].topics}

\* The matching positions by priority descending, then by position.
OptOrdered ==
    CHOOSE f \in [1..Cardinality(OptMatching) -> OptMatching] :
       \A p \in DOMAIN f, q \in DOMAIN f :
          p < q => \/ OptCatalog[f[p]].priority > OptCatalog[f[q]].priority
                   \/ /\ OptCatalog[f[p]].priority = OptCatalog[f[q]].priority
                      /\ f[p] < f[q]

\* The positions a build is to select, in order.
OptExpected == IF OptFull THEN [i \in 1..Len(OptCatalog) |-> i] ELSE OptOrdered

\* texts[1], ..., texts[n] with a blank line between them
RECURSIVE OptJoined(_, _)
OptJoined(texts, n) ==
    IF n = 0 THEN ""
    ELSE IF n = 1 THEN texts[1]
    ELSE OptJoined(texts, n - 1) \o "\n\n" \o texts[n]

\* n = ceil(Len(text) / 4)
OptIsCeilQuarter(n, text) == 4 * (n - 1) < Len(text) /\ Len(text) <= 4 * n

(***************************************************************************)
(* C14. In selective mode sectionsIncluded lists exactly the sections that *)
(* are alwaysInclude or share a topic with the request, by priority        *)
(* descending, equal priorities in configured order; every alwaysInclude   *)
(* section is in it and every id in it is an id of the catalog.            *)
(***************************************************************************)
C14_SelectiveSelection ==
    (optIn.built /\ ~OptFull) =>
       /\ optOut.sectionsIncluded =
             [p \in 1..Cardinality(OptMatching) |-> OptCatalog[OptOrdered[p]].id]
       /\ \A i \in 1..Len(OptCatalog) :
             OptCatalog[i].alwaysInclude =>
                \E p \in 1..Len(optOut.sectionsIncluded) :
                   optOut.sectionsIncluded[p] = OptCatalog[i].id
       /\ \A p \in 1..Len(optOut.sectionsIncluded) :
             \E i \in 1..Len(OptCatalog) : OptCatalog[i].id = optOut.sectionsIncluded[p]

\* A follow-up build about "help" over a catalog that lists an alwaysInclude
\* section of priority 0 before two matching sections of priority 2.
C14_Witness ==
    /\ optIn.built /\ ~OptFull
    /\ optIn.topics = {"help"}
    /\ Len(OptCatalog) = 3
    /\ OptCatalog[1].id = "core" /\ OptCatalog[1].alwaysInclude
    /\ OptCatalog[2].id = "bill" /\ OptCatalog[3].id = "help"
    /\ optOut.sectionsIncluded = <<"bill", "help", "core">>

(***************************************************************************)
(* C15. A build uses the full catalog in configured order, unsorted, when  *)
(* (isFirstMessage and firstMessage is not selective) or (not              *)
(* isFirstMessage and followUp is full), and a selective selection         *)
(* otherwise; with no policy a first message is full, a follow-up          *)
(* selective.                                                              *)
(***************************************************************************)
C15_FullOrSelective ==
    optIn.built =>
       /\ OptFull =>
             optOut.sectionsIncluded = [i \in 1..Len(OptCatalog) |-> OptCatalog[i].id]
       /\ ~OptFull =>
             /\ Len(optOut.sectionsIncluded) = Cardinality(OptMatching)
             /\ \A p \in 1..Len(optOut.sectionsIncluded) :
                   \E i \in OptMatching : OptCatalog[i].id = optOut.sectionsIncluded[p]
       /\ ~optIn.config.strategy.defined => (OptFull <=> optIn.isFirstMessage)

\* With no policy, a first message got a catalog whose priorities are not in
\* order and one of whose sections matches nothing, as configured.
C15_Witness ==
    /\ optIn.built
    /\ ~optIn.config.strategy.defined /\ optIn.isFirstMessage
    /\ optIn.topics = {}
    /\ optOut.sectionsIncluded = <<"core", "help", "misc">>

\* Auxiliary: under the policy firstMessage = selective a first message got a
\* selective selection.
C15_WitnessSelectiveFirst ==
    /\ optIn.built /\ optIn.isFirstMessage
    /\ optIn.config.strategy.defined /\ optIn.config.strategy.firstMessage = "selective"
    /\ Len(OptCatalog) = 3
    /\ optOut.sectionsIncluded = <<"core">>

(***************************************************************************)
(* C16. systemPrompt is the selected sections' contents joined by a blank  *)
(* line, followed by a blank line and the tone instruction iff a tone is   *)
(* given and is in the tone map; tokenEstimate = ceil(|systemPrompt| / 4); *)
(* maxTokenEstimate = ceil(|all contents joined by a blank line| / 4),     *)
(* without the tone; totalSections is the catalog's size.                  *)
(***************************************************************************)
C16_ToneApplies ==
    /\ optIn.tone # Undefined
    /\ optIn.config.toneInstructions.defined
    /\ optIn.tone \in DOMAIN optIn.config.toneInstructions.map

C16_Body == OptJoined([p \in DOMAIN OptExpected |-> OptCatalog[OptExpected[p]].content],
                      Len(OptExpected))

C17_LoaderFailedFor(c) ==
    /\ dyn[c].pc = "done"
    /\ dyn[c].load # 0
    /\ loads[dyn[c].load].state = "rejected"

C17_LoaderFailure ==
    \A c \in CallerIds :
       C17_LoaderFailedFor(c) =>
          IF dcfg.hasFallback
          THEN /\ dyn[c].error.statusCode = 0
               /\ dyn[c].out.kind = "fallback"
               /\ dyn[c].out.selection =
                     buildContext(dyn[c].req.topics, dyn[c].req.isFirstMessage,
                                  fallbackConfig, dyn[c].req.tone)
          ELSE /\ dyn[c].error.statusCode = 500
               /\ dyn[c].error.step = "dynamicContext"
               /\ dyn[c].out.kind = "none"

\* A load made through the cache has failed for a first message and the call
\* has returned the fallback optimizer's full catalog without a failure.
C17_Witness ==
    /\ dcfg.hasCache /\ dcfg.hasFallback
    /\ \E c \in CallerIds :
          /\ C17_LoaderFailedFor(c)
          /\ dyn[c].req.isFirstMessage
          /\ dyn[c].error.statusCode = 0
          /\ dyn[c].out.selection.sectionsIncluded = <<"misc", "core">>

\* Auxiliary: without a fallback optimizer a loader failure has become the
\* failure descriptor.
C17_WitnessNoFallback ==
    /\ ~dcfg.hasFallback
    /\ \E c \in CallerIds :
          /\ C17_LoaderFailedFor(c)
          /\ dyn[c].error.statusCode = 500
          /\ dyn[c].error.step = "dynamicContext"

(***************************************************************************)
(* C18. With a cache, the dynamic context stage calls getOrLoad under the  *)
(* key variant, or "default" when there is no variant, whatever the topics *)
(* and isFirstMessage: it invokes the loader, with its own variant, only   *)
(* when the key has no unexpired entry and no load in flight, so builds of *)
(* one variant inside the TTL share one successful loader invocation and   *)
(* get that variant's sections.                                            *)
(***************************************************************************)
C18_Key(req) == IF req.variant = Undefined THEN "default" ELSE req.variant

C18_CallStep ==
    \A c \in CallerIds :
       (/\ dcfg.hasCache
        /\ dyn[c].pc = "idle" /\ dyn'[c].pc # "idle"
        /\ dyn'[c].error.statusCode = 0) =>
          LET k == C18_Key(dyn'[c].req)
          IN  /\ callers'[c].key = k
              /\ IF (cache[k].present /\ cache[k].expiresAt > now) \/ InFlight(k) # {}
                 THEN loads' = loads
                 ELSE /\ Len(loads') = Len(loads) + 1
                      /\ loads'[Len(loads')].key = k
                      /\ loadArgs'[Len(loads')].variant = dyn'[c].req.variant

C18_State ==
    dcfg.hasCache =>
       /\ \A l \in 1..Len(loads) :
             loads[l].key = (IF loadArgs[l].variant = Undefined THEN "default"
                             ELSE loadArgs[l].variant)
       /\ \A c \in CallerIds :
             (dyn[c].pc = "done" /\ dyn[c].out.kind = "dynamic") =>
                /\ loadArgs[dyn[c].load].variant = dyn[c].req.variant
                /\ dyn[c].out.variant = dyn[c].req.variant
                /\ dyn[c].out.selection.totalSections =
                      Len(loaderSections(dyn[c].req.variant))
       /\ now < Ttl =>
             \A k \in CacheKeys :
                Cardinality({l \in 1..Len(loads) :
                               loads[l].key = k /\ loads[l].state # "rejected"}) <= 1

C19_HandlerReturned == rl.pc \in {"returned", "next", "done"}

C19_Denied == rl.limiter # <<>> /\ ~rl.limiter[1].allowed

C19_RateLimitStage ==
    C19_HandlerReturned =>
       /\ (rl.out.error # <<>>) <=> C19_Denied
       /\ C19_Denied =>
             /\ rl.out.error[1].statusCode = 429
             /\ rl.out.error[1].step = "rateLimit"
             /\ rl.out.error[1].retryAfter = rl.limiter[1].retryAfter
             /\ rl.out.error[1].message = "Too many requests. Please try again later."
             /\ rl.pc # "next"
             /\ rl.laterRan = 0
             /\ rl.pc = "done" => (rl.plan.returned /\ ~rl.plan.success)
       /\ (rl.limiter # <<>> /\ rl.limiter[1].allowed) =>
             /\ rl.out.rateLimit = rl.limiter
             /\ rl.out.error = <<>>

\* The limiter has denied the request with the largest retryAfter, and the
\* plan has returned that failure without running the later step.
C19_Witness ==
    /\ rl.pc = "done"
    /\ C19_Denied
    /\ rl.limiter[1].retryAfter = <<MaxRetryAfter>>
    /\ rl.out.error[1].retryAfter = <<MaxRetryAfter>>
    /\ rl.plan.error = rl.out.error
    /\ rl.laterRan = 0

\* Auxiliary: the request was allowed and the later step has run.
C19_WitnessAllowed ==
    /\ rl.pc = "done"
    /\ rl.limiter # <<>> /\ rl.limiter[1].allowed
    /\ rl.laterRan = 1
    /\ rl.plan.success

(***************************************************************************)
(* C20. The moderation stage returns a failure (statusCode 400, step       *)
(* "contentModeration", contentModeration.passed = false with a reason)    *)
(* exactly when the last message has role user and its text matches a spam *)
(* pattern, contains a profanity word or matches a custom rule, a string   *)
(* pattern of a custom rule being matched case-insensitively; in every     *)
(* other case, an error raised while checking included, it sets            *)
(* contentModeration.passed = true and no failure.                         *)
(***************************************************************************)
C20_Spam ==
    \E i \in 1..Len(spamPatterns(mcfg)) : test(spamPatterns(mcfg)[i], mcfg.content)

C20_Profanity ==
    \E i \in 1..Len(mcfg.profanityWords) :
       includes(toLowerCase(mcfg.content), toLowerCase(mcfg.profanityWords[i]))

C20_RuleMatches(rule) ==
    IF rule.pattern.type = "string"
    THEN test([rule.pattern.re EXCEPT !.ignoreCase = TRUE], mcfg.content)
    ELSE rule.pattern.type = "regexp" /\ test(rule.pattern.re, mcfg.content)

\* Some rule matches and no rule before it raises an error.
C20_Custom ==
    \E k \in 1..Len(mcfg.customRules) :
       /\ C20_RuleMatches(mcfg.customRules[k])
       /\ \A j \in 1..(k - 1) :
             /\ mcfg.customRules[j].pattern.type # "throwing"
             /\ ~C20_RuleMatches(mcfg.customRules[j])

C20_ShouldFlag == mcfg.role = "user" /\ (C20_Spam \/ C20_Profanity \/ C20_Custom)

C20_Body ==
    mod.pc = "done" =>
       IF C20_ShouldFlag
       THEN /\ mod.out.error.statusCode = 400
            /\ mod.out.error.step = "contentModeration"
            /\ ~mod.out.contentModeration.passed
            /\ mod.out.contentModeration.reason # Undefined
       ELSE /\ mod.out.error = NoModerationError
            /\ mod.out.contentModeration.passed

C20_FlagsIffMatch == C20_Body

C20_NoStringRule ==
    \A k \in 1..Len(mcfg.customRules) : mcfg.customRules[k].pattern.type # "string"

\* Auxiliary: the statement holds when no custom rule's pattern is a string.
C20_RegExpRulesOnly == C20_NoStringRule => C20_Body

\* Auxiliary: a request that reaches a custom rule whose pattern is a string
\* passes with the TypeError's text under contentModeration.error.
C20_StringRulePasses ==
    (/\ mod.pc = "done"
     /\ mcfg.role = "user" /\ ~C20_Spam /\ ~C20_Profanity
     /\ mcfg.customRules # <<>>
     /\ mcfg.customRules[1].pattern.type = "string") =>
        /\ mod.out.contentModeration.passed
        /\ mod.out.contentModeration.error = NotAFunction
        /\ mod.out.error = NoModerationError

\* Auxiliary: a RegExp rule without the i flag has let a text through that
\* differs from its source only in case.
C20_WitnessCaseSensitiveRule ==
    /\ mod.pc = "done"
    /\ mcfg.role = "user"
    /\ mcfg.content = <<"A", "b">>
    /\ mcfg.customRules # <<>>
    /\ mcfg.customRules[1].reason = "exact rule"
    /\ mod.out.contentModeration.passed

(***************************************************************************)
(* C21. For every condition p and state s, not(not(p))(s), and(p, true)(s) *)
(* and or(p, false)(s) give what p(s) gives; and(...) calls its conditions *)
(* in order up to the first that is false, or(...) up to the first that is *)
(* true, and calls none after it.                                          *)
(***************************************************************************)
C21_FirstOther(x) ==
    LET other == {i \in 1..Len(cnd.chain) : cnd.val[cnd.chain[i]] # x}
    IN  IF other = {} THEN Len(cnd.chain)
        ELSE CHOOSE i \in other : \A j \in other : i <= j

C21_Combinators ==
    /\ cnd.pc \in {"tripped", "done"} =>
          /\ cnd.notNot.out = cnd.direct.out
          /\ cnd.andTrue.out = cnd.direct.out
          /\ cnd.orFalse.out = cnd.direct.out
    /\ cnd.pc = "done" =>
          /\ cnd.andChain.calls = SubSeq(cnd.chain, 1, C21_FirstOther("true"))
          /\ cnd.orChain.calls = SubSeq(cnd.chain, 1, C21_FirstOther("false"))
          /\ (cnd.andChain.out = "true") <=>
                (\A i \in 1..Len(cnd.chain) : cnd.val[cnd.chain[i]] = "true")
          /\ (cnd.orChain.out = "false") <=>
                (\A i \in 1..Len(cnd.chain) : cnd.val[cnd.chain[i]] = "false")

\* p is and(q, r) and false; a chain of three conditions begins with one that
\* is false and and() has called that one only, while or() has called more.
C21_Witness ==
    /\ cnd.pc = "done"
    /\ cnd.p.op = "and" /\ Len(cnd.p.args) = 2
    /\ cnd.direct.out = "false" /\ cnd.notNot.out = "false"
    /\ cnd.andTrue.out = "false"
    /\ Len(cnd.chain) = MaxConds
    /\ cnd.val[cnd.chain[1]] = "false"
    /\ cnd.andChain.calls = <<cnd.chain[1]>>
    /\ Len(cnd.orChain.calls) > 1

(***************************************************************************)
(* C22. A throwing onStepComplete or onError callback does not fail the    *)
(* plan: no step's promise is rejected because of a callback, and the      *)
(* returned failure is never the one built from a callback's fault.        *)
(***************************************************************************)
C22_CallbackNeverFatal ==
    pc = "done" =>
       /\ \A s \in PlanIds : status[s] = "rejected" => fault[s] # CallbackFault
       /\ result.error.step # "orchestration"
       /\ (~result.success) => \E t \in PlanIds : StageFailed(t)

\* Auxiliary: what the code does.  A step whose onStepComplete call threw
\* makes the execution return a 500 failure although its handler returned.
C22_StepCompleteFaultFails ==
    (pc = "done" /\ \E s \in PlanIds : status[s] = "rejected" /\ fault[s] = CallbackFault)
       => (~result.success /\ result.error.statusCode = 500)

\* Auxiliary: a plan all of whose handlers returned without failure has been
\* failed by a callback.
C22_WitnessFatal ==
    /\ pc = "done"
    /\ ~result.success
    /\ callbackThrew
    /\ \A t \in PlanIds : ~StageFailed(t)

(***************************************************************************)
(* C23. When a single (non-grouped) stage returns a failure descriptor,    *)
(* the failure returned by executeOrchestration is that descriptor, with   *)
(* its step set to the stage's name when the descriptor carries no step.   *)
(* Stated for the executions in which no callback throws.                  *)
(***************************************************************************)
C23_SingleFailed ==
    /\ Returns
    /\ ~steps[idx].par
    /\ ReturnedFailure(steps[idx].stages[1].id)
    /\ ~callbackThrew'

C23_SingleFailureWithStep ==
    [][C23_SingleFailed =>
         LET id == steps[idx].stages[1].id
             e == stepResult[id].error
         IN  /\ ~result'.success
             /\ result'.error.message = e.message
             /\ result'.error.statusCode = e.statusCode
             /\ result'.error.step = (IF e.step = Undefined THEN Name(id) ELSE e.step)]_vars

\* Auxiliary: what the code does.  The failure is the descriptor as returned,
\* its step left absent, and the stage's name goes to onError only.
C23_SingleFailureAsReturned ==
    [][C23_SingleFailed =>
         LET id == steps[idx].stages[1].id
         IN  /\ ~result'.success
             /\ result'.error = stepResult[id].error
             /\ result'.context = stepResult[id]
             /\ onErrorLog'[Len(onErrorLog')].step = Name(id)]_vars

\* Auxiliary: a single stage's failure without a step has been returned.
C23_WitnessNoStep ==
    /\ pc = "done"
    /\ ~callbackThrew
    /\ ~result.success
    /\ result.error.statusCode = 400
    /\ result.error.step = Undefined
    /\ ~steps[idx].par

(***************************************************************************)
(* C24. When includeErrorDetails is false, the failure returned by         *)
(* executeOrchestration and every error view passed to onError carry no    *)
(* details, whether the failing stage threw or returned a failure          *)
(* descriptor that itself has details.                                     *)
(***************************************************************************)
C24_NoDetailsInProduction ==
    ~config.includeErrorDetails =>
       /\ pc = "done" => result.error.details = Undefined
       /\ \A i \in 1..Len(onErrorLog) : onErrorLog[i].details = Undefined

\* Auxiliary: what the code does.  With includeErrorDetails false the only
\* details that come out are those a stage put into its own descriptor; the
\* text of a thrown fault never does.
C24_OnlyReturnedDetails ==
    ~config.includeErrorDetails =>
       /\ pc = "done" => result.error.details \in {Undefined, "handler details"}
       /\ \A i \in 1..Len(onErrorLog) :
             onErrorLog[i].details \in {Undefined, "handler details"}

\* Auxiliary: a stage's own details have been returned and passed to onError
\* with includeErrorDetails false.
C24_WitnessLeak ==
    /\ ~config.includeErrorDetails
    /\ pc = "done"
    /\ result.error.details = "handler details"
    /\ onErrorLog # <<>>
    /\ onErrorLog[Len(onErrorLog)].details = "handler details"

C25_RequestOfLastStage ==
    [][GroupSucceeds =>
          LET entry == steps[idx]
          IN  currentContext'.request =
                 stepResult[entry.stages[Len(entry.stages)].id].request]_vars

\* Auxiliary: a stage of a successful group has replaced the request.
C25_WitnessReplaced ==
    /\ pc = "await"
    /\ idx > 1
    /\ steps[idx - 1].par
    /\ currentContext.request # InputContext.request

(***************************************************************************)
(* C26. In every call of the intent stage in which the LLM tier has        *)
(* classified the message, onFallback is called exactly once, with the     *)
(* message, the keyword intent and confidence and the LLM intent and       *)
(* confidence, whether or not the two intents are equal; in every other    *)
(* call, and so whenever the keyword result is returned, it is not called. *)
(***************************************************************************)
C26_LlmClassified == llmCalls = 1 /\ llmResult.intent # Undefined

C26_WitnessDiffer ==
    /\ ipc = "done"
    /\ icfg.hasOnFallback
    /\ C26_LlmClassified
    /\ llmResult.intent # kwResult.intent
    /\ Len(fallbackLog) = 1

\* Auxiliary: the keyword result was returned with an onFallback configured
\* and a fallback enabled.
C26_WitnessKeyword ==
    /\ ipc = "done"
    /\ icfg.hasOnFallback
    /\ icfg.llmFallback.defined /\ icfg.llmFallback.enabled
    /\ llmCalls = 0
    /\ intentOut = kwResult
    /\ kwResult.intent # "general"
    /\ fallbackLog = <<>>

(***************************************************************************)
(* C27. For every catalog, one with two sections of the same id included,  *)
(* sectionsIncluded of a build holds each id at most once: it has as many  *)
(* elements as the selection has distinct ids.                             *)
(***************************************************************************)
C27_DeduplicatedById ==
    optIn.built =>
       /\ \A p \in 1..Len(optOut.sectionsIncluded), q \in 1..Len(optOut.sectionsIncluded) :
             optOut.sectionsIncluded[p] = optOut.sectionsIncluded[q] => p = q
       /\ Len(optOut.sectionsIncluded) =
             Cardinality({OptCatalog[OptExpected[p]].id : p \in DOMAIN OptExpected})

\* Auxiliary: what the code does.  sectionsIncluded has one element for every
\* selected section, whatever the ids.
C27_OnePerSelectedSection ==
    optIn.built =>
       optOut.sectionsIncluded =
          [p \in DOMAIN OptExpected |-> OptCatalog[OptExpected[p]].id]

\* Auxiliary: a build has returned the id "core" twice.
C27_WitnessTwice ==
    /\ optIn.built
    /\ \E p \in 1..Len(optOut.sectionsIncluded), q \in 1..Len(optOut.sectionsIncluded) :
          /\ p < q
          /\ optOut.sectionsIncluded[p] = "core"
          /\ optOut.sectionsIncluded[q] = "core"
    /\ OptCatalog[1].content # OptCatalog[2].content

C29_Parseable ==
    \E i \in 1..Len(prs.text) :
        /\ prs.text[i] \in ConfidenceLabels
        /\ LET j == runEnd(prs.text, i + 1, {" "})
           IN  /\ j <= Len(prs.text)
               /\ \/ prs.text[j] \in Digits
                  \/ /\ prs.text[j] = "."
                     /\ j + 1 <= Len(prs.text)
                     /\ prs.text[j + 1] \in Digits

C29_IntentOk ==
    /\ prs.out.intent \in prs.categories \cup {<<"general">>}
    /\ \A k \in 1..Len(prs.out.intent) : prs.out.intent[k] # "G"

C29_ParsedResult ==
    prs # <<>> /\ prs.pc = "done" =>
        /\ C29_IntentOk
        /\ ~prs.out.confidence.nan
        /\ 0 <= prs.out.confidence.n
        /\ prs.out.confidence.n <= prs.out.confidence.d
        /\ (~C29_Parseable => prs.out.confidence = [nan |-> FALSE, n |-> 1, d |-> 2])

\* What the code does: the intent is as stated, and the confidence is as
\* stated except that it is NaN when the first CONFIDENCE label that is
\* followed by digits or dots is followed by dots only.
C29_DotsOnly ==
    LET cm == confidenceMatch(prs.text)
    IN  /\ cm # 0
        /\ prs.text[cm] = "."
        /\ ~(cm + 1 <= Len(prs.text) /\ prs.text[cm + 1] \in Digits)

C29_NaNForDots ==
    prs # <<>> /\ prs.pc = "done" =>
        /\ C29_IntentOk
        /\ prs.out.confidence.nan <=> C29_DotsOnly
        /\ ~prs.out.confidence.nan =>
              /\ 0 <= prs.out.confidence.n
              /\ prs.out.confidence.n <= prs.out.confidence.d
              /\ (~C29_Parseable => prs.out.confidence = [nan |-> FALSE, n |-> 1, d |-> 2])

\* parseResponse("INTENT:g CONFIDENCE:.", ["g"]) has returned NaN.
C29_WitnessNaN ==
    /\ prs # <<>>
    /\ prs.pc = "done"
    /\ prs.text = <<"INTENT:", "g", " ", "CONFIDENCE:", ".">>
    /\ prs.out.intent = <<"g">>
    /\ prs.out.confidence.nan

\* A confidence above 1 has been clamped and an upper-case intent lowered.
C29_WitnessClamped ==
    /\ prs # <<>>
    /\ prs.pc = "done"
    /\ prs.text = <<"intent:", "G", " ", "CONFIDENCE:", "5">>
    /\ prs.out = [intent |-> <<"g">>, confidence |-> [nan |-> FALSE, n |-> 1, d |-> 1]]

\* C30: isAuthenticated() is true for a state iff request.metadata.userId is
\* present or request.metadata.authenticated is exactly true, and a step
\* gated by not(isAuthenticated()) runs for every state that has neither.
C30_Has(e) ==
    \/ e.before.userId # "undefined"
    \/ e.before.authenticated = "true"

C30_PresentOrExactlyTrue ==
    auth # <<>> =>
        \A k \in 1..Len(auth.log) :
            /\ auth.log[k].result <=> C30_Has(auth.log[k])
            /\ auth.log[k].gate = "not(isAuthenticated)" /\ ~C30_Has(auth.log[k])
                  => auth.log[k].ran

\* What the code does: the test is the truthiness of either value, and the
\* two readings agree when userId is absent or a non-empty string and
\* authenticated is absent or a boolean.
C30_Truthy(e) ==
    \/ e.before.userId \notin {"undefined", "''"}
    \/ e.before.authenticated \notin {"undefined", "false"}

C30_TruthinessTest ==
    auth # <<>> =>
        \A k \in 1..Len(auth.log) :
            /\ auth.log[k].result <=> C30_Truthy(auth.log[k])
            /\ auth.log[k].gate = "not(isAuthenticated)"
                  => (auth.log[k].ran <=> ~C30_Truthy(auth.log[k]))
            /\ auth.log[k].before.userId # "''" /\ auth.log[k].before.authenticated # "'yes'"
                  => (auth.log[k].result <=> C30_Has(auth.log[k]))

\* metadata {authenticated: 'yes'} has neither, yet the gated step was skipped.
C30_WitnessSkipped ==
    /\ auth # <<>>
    /\ Len(auth.log) >= 1
    /\ auth.log[1].gate = "not(isAuthenticated)"
    /\ auth.log[1].before = [given |-> TRUE, userId |-> "undefined", authenticated |-> "'yes'"]
    /\ auth.log[1].result
    /\ ~auth.log[1].ran

\* metadata {userId: ''} has a userId, yet isAuthenticated() was false.
C30_WitnessEmptyUserId ==
    /\ auth # <<>>
    /\ Len(auth.log) >= 1
    /\ auth.log[1].before = [given |-> TRUE, userId |-> "''", authenticated |-> "undefined"]
    /\ ~auth.log[1].result

\* C31: removeHandler(name) removes from the plan exactly the stages named
\* name and leaves every other stage, members of a group with such a stage
\* included, in its place; addHandler appends one plan-entry at the end.
C31_Managed == orc # <<>> /\ orc' # <<>> /\ orc'.ops = orc.ops + 1

C31_Step ==
    C31_Managed =>
        /\ orc'.last.op = "removeHandler" =>
              /\ Flat(orc'.arrays[orc'.steps])
                   = SelectSeq(Flat(orc.arrays[orc.steps]),
                               LAMBDA id : orc.objs[id].name # orc'.last.name)
              /\ orc'.objs = orc.objs
        /\ orc'.last.op = "addHandler" =>
              /\ Len(planOf(orc')) = Len(planOf(orc)) + 1
              /\ SubSeq(planOf(orc'), 1, Len(planOf(orc))) = planOf(orc)
              /\ planOf(orc')[Len(planOf(orc'))]
                   = [k \in 1..Len(orc'.last.entry) |->
                        [name |-> orc'.last.entry[k], enabled |-> TRUE]]

C31_EntryStep ==
    C31_Managed =>
        /\ orc'.last.op = "removeHandler" =>
              /\ orc'.arrays[orc'.steps]
                   = SelectSeq(orc.arrays[orc.steps],
                               LAMBDA e : \A k \in 1..Len(e) :
                                            orc.objs[e[k]].name # orc'.last.name)
              /\ orc'.objs = orc.objs
        /\ orc'.last.op = "addHandler" =>
              /\ Len(planOf(orc')) = Len(planOf(orc)) + 1
              /\ SubSeq(planOf(orc'), 1, Len(planOf(orc))) = planOf(orc)

C31_RemovesWholeEntries == [][C31_EntryStep]_vars

\* removeHandler("S1") on the plan [[S1, S2]] has left an empty plan.
C31_WitnessSiblingGone ==
    /\ orc # <<>>
    /\ orc.last = [op |-> "removeHandler", name |-> "S1", entry |-> <<>>]
    /\ orc.ops = 1
    /\ orc.arrays[1] = <<<<1, 2>>>>
    /\ orc.objs[2].name = "S2"
    /\ thisSteps = <<>>

\* C39: an execution runs the plan as it was when execute was called:
\* addHandler, removeHandler and toggleStep calls made while it is suspended
\* in a stage do not change which stages it invokes.
C39_Expected(x) ==
    LET on == SelectSeq(Flat(x.atCall), LAMBDA st : st.enabled)
    IN  [k \in 1..Len(on) |-> on[k].name]

C39_RunsPlanAsCalled ==
    orc # <<>> =>
        \A x \in 1..Len(orc.execs) :
            orc.execs[x].done => orc.execs[x].context = C39_Expected(orc.execs[x])

\* What the code does: removeHandler leaves the array of an execution in
\* flight as it is, addHandler appends to it and toggleStep changes the step
\* objects it holds.
C39_RemoveStep ==
    C31_Managed /\ orc'.last.op = "removeHandler" =>
        /\ orc'.objs = orc.objs
        /\ \A x \in 1..Len(orc.execs) :
              orc'.arrays[orc.execs[x].array] = orc.arrays[orc.execs[x].array]

C39_RemoveLeavesExecutions == [][C39_RemoveStep]_vars

\* An execution of the plan [S1] has also called S2, added while it was
\* suspended in S1.
C39_WitnessAdded ==
    /\ orc # <<>>
    /\ Len(orc.execs) >= 1
    /\ orc.execs[1].done
    /\ orc.execs[1].atCall = <<<<[name |-> "S1", enabled |-> TRUE]>>>>
    /\ orc.execs[1].context = <<"S1", "S2">>

\* An execution of the plan [S1, S2] has not called S2, disabled while it
\* was suspended in S1.
C39_WitnessToggled ==
    /\ orc # <<>>
    /\ Len(orc.execs) >= 1
    /\ orc.execs[1].done
    /\ orc.execs[1].atCall
         = <<<<[name |-> "S1", enabled |-> TRUE]>>, <<[name |-> "S2", enabled |-> TRUE]>>>>
    /\ orc.execs[1].context = <<"S1">>

\* C32: in a parallel group where an earlier-declared stage returns a
\* failure descriptor and a later-declared stage's handler throws, the
\* failure the executor reports is the earlier stage's: its statusCode and
\* its step.
C32_EarlierFailedLaterThrew ==
    /\ Returns
    /\ steps[idx].par
    /\ FailingIn(steps[idx]) # {}
    /\ \E j \in 1..Len(steps[idx].stages) :
          /\ j > FirstFailing(steps[idx])
          /\ status[steps[idx].stages[j].id] = "rejected"
          /\ fault[steps[idx].stages[j].id] = HandlerFault(steps[idx].stages[j].id)

C32_EarlierId == steps[idx].stages[FirstFailing(steps[idx])].id

C32_EarlierFailureWins ==
    [][C32_EarlierFailedLaterThrew =>
          /\ result'.success = FALSE
          /\ result'.error.statusCode = stepResult[C32_EarlierId].error.statusCode
          /\ result'.error.step =
                IF stepResult[C32_EarlierId].error.step = "undefined"
                THEN Name(C32_EarlierId)
                ELSE stepResult[C32_EarlierId].error.step]_vars

\* What the code does: Promise.all rejects with the thrown fault, and the
\* failure is the catch block's, whatever the earlier stage returned.
C32_ThrowWins ==
    [][C32_EarlierFailedLaterThrew /\ ~callbackThrew' =>
          /\ result'.success = FALSE
          /\ result'.error.statusCode = 500
          /\ result'.error.step = JoinNames(steps[idx].stages)
          /\ result'.error.message = GenericMessage]_vars

\* S1 of the group [S1, S2] returned a 400 failure, S2 threw, and the
\* executor has returned the 500 failure of step "S1, S2".
C32_WitnessThrowWon ==
    /\ pc = "done"
    /\ Len(steps) >= 1
    /\ steps[1].par
    /\ status[1] = "fulfilled"
    /\ stepResult[1].error.statusCode = 400
    /\ status[2] = "rejected"
    /\ fault[2] = HandlerFault(2)
    /\ result.error.statusCode = 500
    /\ result.error.step = "S1, S2"

\* C33: a failing onFallback (throwing or rejecting) never changes the
\* intent stage's output: the handler resolves with the LLM result.
C33_FallbackFailed ==
    /\ ipc = "done"
    /\ Len(fallbackLog) = 1
    /\ fallbackLog[1].outcome \in {"throws", "rejects"}

C33_CallbackFailureHarmless ==
    C33_FallbackFailed =>
        /\ intentReturn = [kind |-> "resolved", error |-> NoError]
        /\ intentOut.intent = llmResult.intent
        /\ intentOut.confidence = llmResult.confidence

\* What the code does: a rejected promise of onFallback is caught (lines
\* 98-109) and the LLM result is returned; a synchronous throw reaches the
\* catch of line 134 and the intent is the default {general, 0}.
C33_OnlyRejectionHarmless ==
    C33_FallbackFailed =>
        /\ intentReturn = [kind |-> "resolved", error |-> NoError]
        /\ fallbackLog[1].outcome = "rejects" =>
              /\ intentOut.intent = llmResult.intent
              /\ intentOut.confidence = llmResult.confidence
        /\ fallbackLog[1].outcome = "throws" =>
              /\ intentOut.intent = "general"
              /\ intentOut.confidence = [n |-> 0, d |-> 1]

\* onFallback threw and the handler returned the default intent, not the
\* LLM's.
C33_WitnessThrown ==
    /\ C33_FallbackFailed
    /\ fallbackLog[1].outcome = "throws"
    /\ llmResult.intent = "help"
    /\ intentOut.intent = "general"

\* The same for the dynamic context stage: a call with a variant that ends
\* with a failure descriptor ends so because its loader failed.
C33_VariantCallbackHarmless ==
    dyn # <<>> =>
        \A c \in DOMAIN dyn :
            dyn[c].pc = "done" /\ dyn[c].error # NoError
                => dyn[c].error.details = "loader fault"

\* onVariantUsed threw and the stage returned the 500 failure of the outer
\* catch.
C33_WitnessVariantThrown ==
    /\ dyn # <<>>
    /\ \E c \in DOMAIN dyn :
          /\ dyn[c].pc = "done"
          /\ dyn[c].req.variant = "v1"
          /\ dyn[c].out.kind = "none"
          /\ dyn[c].error.statusCode = 500
          /\ dyn[c].error.details = "callback fault"

\* C34: for a deterministic loader and builds inside the TTL, the selection a
\* call returns with a cache configured is the one it returns without a
\* cache: the selection over what the loader gives for the call's own
\* topics, variant and isFirstMessage.
C34_Uncached(c) ==
    dynamicResult(load([topics |-> dyn[c].req.topics, variant |-> dyn[c].req.variant,
                        isFirstMessage |-> dyn[c].req.isFirstMessage]),
                  dyn[c].req)

C34_CacheTransparent ==
    dyn # <<>> =>
        \A c \in DOMAIN dyn :
            dyn[c].pc = "done" /\ dyn[c].out.kind = "dynamic" => dyn[c].out = C34_Uncached(c)

\* What the code does: the selection is made over the sections of the load
\* that filled the cache entry, loaded for that call's topics; without a
\* cache each call selects from its own load.
C34_SelectsFromFillingLoad ==
    dyn # <<>> =>
        \A c \in DOMAIN dyn :
            dyn[c].pc = "done" /\ dyn[c].out.kind = "dynamic" =>
                /\ dyn[c].out = dynamicResult(load(loadArgs[dyn[c].load]), dyn[c].req)
                /\ loadArgs[dyn[c].load].variant = dyn[c].req.variant
                /\ ~dcfg.hasCache => dyn[c].out = C34_Uncached(c)

\* A call for the topic "billing" of variant v1 was served from the entry a
\* call for the topic "help" had loaded, and its selection is not the
\* uncached one.
C34_WitnessStale ==
    /\ dyn # <<>>
    /\ dcfg.hasCache
    /\ \E c \in DOMAIN dyn :
          /\ dyn[c].pc = "done"
          /\ dyn[c].out.kind = "dynamic"
          /\ dyn[c].req.topics = {"billing"}
          /\ loadArgs[dyn[c].load].topics = {"help"}
          /\ dyn[c].out # C34_Uncached(c)

\* C35: under every interleaving of getOrLoad, invalidate and clear, at most
\* one loader invocation per key is in flight, and a getOrLoad that finds a
\* load in flight for its key joins it instead of starting another.
C35_Loading(k) == {l \in 1..Len(loads) : loads[l].key = k /\ loads[l].state = "pending"}

C35_CallStep ==
    \A c \in CallerIds :
        (Calls(c) /\ ~Unexpired(callers'[c].key) /\ C35_Loading(callers'[c].key) # {}) =>
            /\ Len(loads') = Len(loads)
            /\ callers'[c].pc = "joined"
            /\ callers'[c].load \in C35_Loading(callers'[c].key)

C35_OneLoadPerKey ==
    [][/\ C35_CallStep
       /\ \A k \in CacheKeys : Cardinality({l \in 1..Len(loads') :
                                     loads'[l].key = k /\ loads'[l].state = "pending"}) <= 1]_vars

\* What the code does: as long as no clear() has hit a loader invocation,
\* at most one load per key is in flight, whatever invalidate() calls are
\* made; clear() forgets the loads in flight and the owner's late
\* pendingLoads.delete(key) forgets the load of another call.
C35_OneLoadUntilClear ==
    cache # <<>> /\ (\A l \in 1..Len(loads) : loads[l].dropped # "clear") =>
        \A k \in CacheKeys : Cardinality(C35_Loading(k)) <= 1

\* Two loader invocations for one key are in flight.
C35_WitnessTwoInFlight ==
    /\ cache # <<>>
    /\ Len(loads) = 2
    /\ loads[1].key = loads[2].key
    /\ loads[1].state = "pending"
    /\ loads[2].state = "pending"

\* C36: after invalidate(key) or clear() has returned, a getOrLoad(key) that
\* starts later never resolves to a value of a loader invocation that began
\* before the invalidation, and no such value is left stored in the cache.
C36_NoStaleValue ==
    cache # <<>> =>
        /\ \A c \in CallerIds : callers[c].pc = "returned" => ~callers[c].stale
        /\ \A k \in CacheKeys : cache[k].present => loads[cache[k].value].dropped = "no"

\* What the code does after clear(): a later call does not join a load
\* begun before it (the value may still be stored late and served).
C36_NoJoinAfterClear ==
    [][\A c \in CallerIds :
          (cache # <<>> /\ Calls(c) /\ callers'[c].pc = "joined")
              => loads[callers'[c].load].dropped # "clear"]_vars

\* A call made after invalidate(key) joined the load begun before it and has
\* returned its value, which is stored in the cache.
C36_WitnessJoinedStale ==
    /\ cache # <<>>
    /\ \E c \in CallerIds :
          /\ callers[c].pc = "returned"
          /\ callers[c].stale
          /\ callers[c].load # 0
          /\ loads[callers[c].load].dropped = "invalidate"
          /\ cache[callers[c].key].present
          /\ cache[callers[c].key].value = callers[c].load

\* A value loaded before clear() was stored after it and served to a later call.
C36_WitnessLateSet ==
    /\ cache # <<>>
    /\ \E c \in CallerIds :
          /\ callers[c].pc = "returned"
          /\ callers[c].load = 0
          /\ loads[callers[c].value].dropped = "clear"

\* C37: in a successful parallel group, the value a stage writes to an
\* extension key is in the merged state whenever no later-listed stage
\* writes that key, also when the key existed in the group's input and when
\* a later-listed stage is skipped.
C37_Wrote(entry, i, k) ==
    /\ invoked[entry.stages[i].id] > 0
    /\ status[entry.stages[i].id] = "fulfilled"
    /\ stepResult[entry.stages[i].id].ext[k] = Name(entry.stages[i].id)

C37_LastWriter(entry, i, k) ==
    /\ C37_Wrote(entry, i, k)
    /\ \A j \in 1..Len(entry.stages) : j > i => ~C37_Wrote(entry, j, k)

C37_WriteSurvives ==
    [][GroupSucceeds =>
          \A k \in Keys : \A i \in 1..Len(steps[idx].stages) :
              C37_LastWriter(steps[idx], i, k)
                  => currentContext'.ext[k] = Name(steps[idx].stages[i].id)]_vars

\* What the code does: every result is spread whole, so a later-listed
\* stage that did not write the key, or was skipped, puts the input's value
\* back; the write survives when the key is absent from the group's input.
C37_SurvivesIfAbsentInInput ==
    [][GroupSucceeds =>
          \A k \in Keys : \A i \in 1..Len(steps[idx].stages) :
              C37_LastWriter(steps[idx], i, k) =>
                  /\ currentContext.ext[k] = "undefined"
                        => currentContext'.ext[k] = Name(steps[idx].stages[i].id)
                  /\ (currentContext.ext[k] # "undefined" /\ i < Len(steps[idx].stages))
                        => currentContext'.ext[k] = currentContext.ext[k]]_vars

\* S1 of the group [S1, S2] wrote k1, S2 was skipped, and the merged state
\* has the input's k1.
C37_WitnessLost ==
    /\ pc = "done"
    /\ Len(steps) = 1
    /\ steps[1].par
    /\ Len(steps[1].stages) = 2
    /\ stepResult[1].ext["k1"] = "S1"
    /\ status[2] = "fulfilled"
    /\ invoked[2] = 0
    /\ result.success
    /\ result.context.ext["k1"] = "in"

\* C38: every execution whose predicates and handlers each complete
\* eventually returns, exactly once, a result that is a success or a failure
\* with a failure descriptor, whatever handlers, predicates and callbacks
\* throw; it never ends without a result.
C38_Terminal ==
    /\ result.returned
    /\ result.success => result.error = NoError /\ result.context.error = NoError
    /\ ~result.success =>
          /\ result.error # NoError
          /\ result.error.statusCode # 0
          /\ result.context.error = result.error

C38_ResolvesOnce ==
    /\ <>(pc = "done")
    /\ [](pc = "done" => C38_Terminal)
    /\ [](pc # "done" => ~result.returned)
    /\ [][pc = "done" => pc' = "done" /\ result' = result]_vars

\* A handler threw, onError threw in the catch block, and the execution has
\* returned the failure of the outer catch.
C38_Witness ==
    /\ pc = "done"
    /\ callbackThrew
    /\ \E s \in StageIds : status[s] = "rejected" /\ fault[s] = HandlerFault(s)
    /\ result.returned
    /\ ~result.success
    /\ result.error.step = "orchestration"

\* C40: with callbacks that do not throw, an execution that returns
\* success = false has fired onError exactly once, with the step, message
\* and statusCode of the returned failure descriptor; one that returns
\* success = true has not fired onError; and onStepComplete has fired once
\* for every handler invocation that returned and never for a skipped stage.
C40_Completed(s) == IF invoked[s] > 0 /\ status[s] = "fulfilled" THEN 1 ELSE 0

C40_StepCompleteOk ==
    \A s \in StageIds : stepCompleteLog[s] = C40_Completed(s)

C40_CallbacksMatchResult ==
    (pc = "done" /\ ~callbackThrew) =>
        /\ result.success => onErrorLog = <<>>
        /\ ~result.success =>
              /\ Len(onErrorLog) = 1
              /\ onErrorLog[1].step = result.error.step
              /\ onErrorLog[1].message = result.error.message
              /\ onErrorLog[1].statusCode = result.error.statusCode
        /\ C40_StepCompleteOk

\* What the code does: the same, except that for a single stage that
\* returned a failure descriptor onError is given the stage's name as step
\* while the returned descriptor keeps the handler's own step, or none.
C40_SingleReturned ==
    /\ ~steps[idx].par
    /\ status[steps[idx].stages[1].id] = "fulfilled"

C40_StepOfSingleDiffers ==
    (pc = "done" /\ ~callbackThrew) =>
        /\ result.success => onErrorLog = <<>>
        /\ ~result.success =>
              /\ Len(onErrorLog) = 1
              /\ onErrorLog[1].message = result.error.message
              /\ onErrorLog[1].statusCode = result.error.statusCode
              /\ onErrorLog[1].step =
                    IF C40_SingleReturned THEN Name(steps[idx].stages[1].id)
                    ELSE result.error.step
        /\ C40_StepCompleteOk

\* A single stage S1 returned a failure descriptor without a step: onError
\* was given step "S1", the returned descriptor has none.
C40_WitnessStepDiffers ==
    /\ pc = "done"
    /\ ~callbackThrew
    /\ ~result.success
    /\ Len(onErrorLog) = 1
    /\ onErrorLog[1].step = "S1"
    /\ result.error.step = "undefined"

====
